---- MODULE Spec2Model ----
(***************************************************************************)
(* A model of the proindian-server news aggregation scripts: the fetch /   *)
(* deduplicate / insert loop of every variant, the near-duplicate merge,   *)
(* deleteOldNews, and the HTTP routes over the "news" collection.          *)
(* Text is a sequence of one-character strings, so that toLowerCase,       *)
(* includes, split and the regular expressions are computed, not assumed.  *)
(* Time is in milliseconds, like Date.now().                               *)
(***************************************************************************)
EXTENDS Integers, Sequences, FiniteSets, Bags, TLC

VARIABLES
    variant,    \* which script is running (one process runs one script)
    news,       \* the "news" collection: document id -> document
    now,        \* the clock, ms
    runs,       \* the fetchNews invocations in flight: run id -> position
    log,        \* per run: what the run did (inserted ids, caught errors)
    reqs,       \* the HTTP requests in flight (a bag of requests with their position)
    resp,       \* the answers sent so far (a bag of requests with their answer)
    jobs,       \* the position of deleteOldNews
    commits,    \* the number of batch.commit() calls issued so far
    tokens,     \* the "fcmTokens" / "devices" collection: token -> registration
    pushed,     \* the notifications sendEachForMulticast has sent (a bag)
    feed,       \* the articles the news source has to offer
    page,       \* the answer to the last GET /news or GET /news/trending request
    cache       \* cachedNews and lastFetchTime of the process (part_002), and readAt,
                \* the moment the query that filled cachedNews answered

vars == <<variant, news, now, runs, log, reqs, resp, jobs, commits, tokens, pushed, feed, page, cache>>

(* ------------------------------ text ---------------------------------- *)

UpperChars == <<"A","B","C","D","E","F","G","H","I","J","K","L","M",
                "N","O","P","Q","R","S","T","U","V","W","X","Y","Z">>
LowerChars == <<"a","b","c","d","e","f","g","h","i","j","k","l","m",
                "n","o","p","q","r","s","t","u","v","w","x","y","z">>
DigitChars == <<"0","1","2","3","4","5","6","7","8","9">>

Range(s) == {s[i] : i \in 1..Len(s)}

\* String.prototype.toLowerCase, one character
LowerChar(c) ==
    IF c \in Range(UpperChars)
    THEN LowerChars[CHOOSE i \in 1..Len(UpperChars) : UpperChars[i] = c]
    ELSE c

\* String.prototype.toLowerCase
toLowerCase(s) == [i \in 1..Len(s) |-> LowerChar(s[i])]

\* the regular expression classes \w and \s
IsWordChar(c) ==
    c \in Range(UpperChars) \cup Range(LowerChars) \cup Range(DigitChars) \cup {"_"}
IsSpaceChar(c) == c \in {" ", "\t", "\n"}

\* String.prototype.includes
includes(s, sub) ==
    \E i \in 0..(Len(s) - Len(sub)) : SubSeq(s, i + 1, i + Len(sub)) = sub

\* s.replace(/[^\w\s]/g, ""): keep the characters that are \w or \s
RECURSIVE StripPunct(_)
StripPunct(s) ==
    IF s = <<>> THEN <<>>
    ELSE IF IsWordChar(Head(s)) \/ IsSpaceChar(Head(s))
         THEN <<Head(s)>> \o StripPunct(Tail(s))
         ELSE StripPunct(Tail(s))

\* the least number of a non-empty set of numbers
Least(S) == CHOOSE i \in S : \A j \in S : i <= j

\* the greatest number of a non-empty set of numbers
Greatest(S) == CHOOSE i \in S : \A j \in S : j <= i

IsBlankAt(p) == p[2] = " "

\* the indices of the single spaces of s, in order
BlanksOf(s) == SelectSeq([i \in 1..Len(s) |-> <<i, s[i]>>], IsBlankAt)

\* String.prototype.split(" "): the pieces between single spaces, empty ones kept
split(s) ==
    LET blanks == BlanksOf(s)
        at(k) == IF k = 0 THEN 0
                 ELSE IF k > Len(blanks) THEN Len(s) + 1 ELSE blanks[k][1]
    IN [k \in 1..(Len(blanks) + 1) |-> SubSeq(s, at(k - 1) + 1, at(k) - 1)]

\* Array.prototype.filter
RECURSIVE SelectLonger(_, _)
SelectLonger(ws, n) ==
    IF ws = <<>> THEN <<>>
    ELSE IF Len(Head(ws)) > n THEN <<Head(ws)>> \o SelectLonger(Tail(ws), n)
         ELSE SelectLonger(Tail(ws), n)

(* --------------------------- pure helpers ----------------------------- *)

\* the length a word must exceed to count in a title's token list
MinWordLen == 3

normalizeTitle(title) ==
    SelectLonger(split(StripPunct(toLowerCase(title))), MinWordLen)

\* similarity(a, b) = |A n B| / |A u B| as a pair <<numerator, denominator>>;
\* 0 / 0 is NaN in the code, and every comparison with NaN is false
similarity(a, b) ==
    <<Cardinality(Range(a) \cap Range(b)), Cardinality(Range(a) \cup Range(b))>>

IsNaN(q) == q[2] = 0

\* q > 0.65, i.e. q[1] / q[2] > 13 / 20
SimNum == 13
SimDen == 20
AboveThreshold(q) == ~IsNaN(q) /\ SimDen * q[1] > SimNum * q[2]

\* p >= q for two ratios
RatioAtLeast(p, q) == ~IsNaN(p) /\ ~IsNaN(q) /\ p[1] * q[2] >= q[1] * p[2]

\* p > q for two ratios, false when either is NaN
RatioGreater(p, q) == ~IsNaN(p) /\ ~IsNaN(q) /\ p[1] * q[2] > q[1] * p[2]

W_breaking == <<"b","r","e","a","k","i","n","g">>
W_live     == <<"l","i","v","e">>
W_alert    == <<"a","l","e","r","t">>
W_justin   == <<"j","u","s","t"," ","i","n">>

isBreaking(title) ==
    LET t == toLowerCase(title) IN
    includes(t, W_breaking) \/ includes(t, W_live) \/ includes(t, W_alert)
        \/ includes(t, W_justin)

W_world      == <<"w","o","r","l","d">>
W_business   == <<"b","u","s","i","n","e","s","s">>
W_sports     == <<"s","p","o","r","t","s">>
W_technology == <<"t","e","c","h","n","o","l","o","g","y">>
W_health     == <<"h","e","a","l","t","h">>

\* mapCategory: the empty sequence stands for an absent or empty category
mapCategory(c) ==
    IF c = <<>> THEN "India"
    ELSE LET cat == toLowerCase(c) IN
         IF includes(cat, W_world) THEN "World"
         ELSE IF includes(cat, W_business) THEN "Business"
         ELSE IF includes(cat, W_sports) THEN "Sports"
         ELSE IF includes(cat, W_technology) THEN "Technology"
         ELSE IF includes(cat, W_health) THEN "Health"
         ELSE "India"

\* mapCategory of the second script of src/index.js (lines 316-328)
mapCategoryIndex2(c) ==
    IF c = <<>> THEN "India"
    ELSE LET cat == toLowerCase(c) IN
         IF includes(cat, W_business) THEN "Business"
         ELSE IF includes(cat, W_sports) THEN "Sports"
         ELSE IF includes(cat, W_health) THEN "Health"
         ELSE IF includes(cat, W_technology) THEN "Technology"
         ELSE IF includes(cat, W_world) THEN "World"
         ELSE "India"

\* mapCategory of the second script of part_004 (lines 362-374)
mapCategoryPart004b(c) ==
    IF c = <<>> THEN "India"
    ELSE LET cat == toLowerCase(c) IN
         IF includes(cat, W_business) THEN "Business"
         ELSE IF includes(cat, W_sports) THEN "Sports"
         ELSE IF includes(cat, W_technology) THEN "Technology"
         ELSE IF includes(cat, W_health) THEN "Health"
         ELSE IF includes(cat, W_world) THEN "World"
         ELSE "India"

\* the regular expressions of detectCategoryFromKeywords, in the order of its tests
Keywords == <<
    [name |-> "India",
     words |-> {<<"i","n","d","i","a">>,
               <<"d","e","l","h","i">>,
               <<"m","u","m","b","a","i">>,
               <<"m","o","d","i">>,
               <<"g","o","v","e","r","n","m","e","n","t">>,
               <<"p","a","r","l","i","a","m","e","n","t">>}],
    [name |-> "World",
     words |-> {<<"u","s","a">>,
               <<"c","h","i","n","a">>,
               <<"r","u","s","s","i","a">>,
               <<"u","k">>,
               <<"e","u","r","o","p","e">>,
               <<"w","o","r","l","d">>,
               <<"i","n","t","e","r","n","a","t","i","o","n","a","l">>}],
    [name |-> "Business",
     words |-> {<<"m","a","r","k","e","t">>,
               <<"s","t","o","c","k">>,
               <<"r","u","p","e","e">>,
               <<"e","c","o","n","o","m","y">>,
               <<"b","u","s","i","n","e","s","s">>,
               <<"s","t","a","r","t","u","p">>,
               <<"f","i","n","a","n","c","e">>}],
    [name |-> "Sports",
     words |-> {<<"c","r","i","c","k","e","t">>,
               <<"f","o","o","t","b","a","l","l">>,
               <<"m","a","t","c","h">>,
               <<"i","p","l">>,
               <<"s","p","o","r","t","s">>,
               <<"t","o","u","r","n","a","m","e","n","t">>}],
    [name |-> "Health",
     words |-> {<<"h","e","a","l","t","h">>,
               <<"h","o","s","p","i","t","a","l">>,
               <<"d","i","s","e","a","s","e">>,
               <<"c","o","v","i","d">>,
               <<"m","e","d","i","c","a","l">>,
               <<"d","o","c","t","o","r">>}],
    [name |-> "Technology",
     words |-> {<<"a","i">>,
               <<"t","e","c","h","n","o","l","o","g","y">>,
               <<"t","e","c","h">>,
               <<"m","o","b","i","l","e">>,
               <<"a","p","p">>,
               <<"s","o","f","t","w","a","r","e">>,
               <<"i","n","t","e","r","n","e","t">>}] >>

\* detectCategoryFromKeywords: the category of the first expression that matches
\* anywhere in the lowered text
detectCategoryFromKeywords(text) ==
    LET lower == toLowerCase(text)
        hits == {k \in DOMAIN Keywords : \E w \in Keywords[k].words : includes(lower, w)}
    IN IF hits = {} THEN "India"
       ELSE Keywords[CHOOSE k \in hits : \A l \in hits : k <= l].name

(* ------------------------- summary cleaners --------------------------- *)

StartsWith(s, p) == Len(s) >= Len(p) /\ SubSeq(s, 1, Len(p)) = p

Drop(s, n) == SubSeq(s, n + 1, Len(s))

\* the length of the longest prefix of s made of non-whitespace characters
NonSpaceRun(s) ==
    LET at == {i \in 1..Len(s) : IsSpaceChar(s[i])}
    IN IF at = {} THEN Len(s) ELSE Least(at) - 1

\* the index of the first character of s that is in stop, 0 when there is none
FirstOf(s, stop) ==
    LET at == {i \in 1..Len(s) : s[i] \in stop}
    IN IF at = {} THEN 0 ELSE Least(at)

P_http  == <<"h","t","t","p",":","/","/">>
P_https == <<"h","t","t","p","s",":","/","/">>
P_pic   == <<"p","i","c",".","t","w","i","t","t","e","r",".","c","o","m">>
\* the three characters the scripts of index.js and part_004 look for
P_dash  == <<"U+00E2","U+20AC","U+201D">>
P_also  == <<"A","l","s","o"," ","R","e","a","d">>
P_dec   == <<"_","D","E","C","I","M","A","L","_">>

\* /https?:\/\/\S+/
UrlMatch(s) ==
    LET k == IF StartsWith(s, P_https) THEN Len(P_https)
             ELSE IF StartsWith(s, P_http) THEN Len(P_http) ELSE 0
        r == IF k = 0 THEN 0 ELSE NonSpaceRun(Drop(s, k))
    IN IF r = 0 THEN 0 ELSE k + r

\* /pic\.twitter\.com\S*/
PicMatch(s) ==
    IF StartsWith(s, P_pic) THEN Len(P_pic) + NonSpaceRun(Drop(s, Len(P_pic))) ELSE 0

\* /<dash>.*?(\.|\n)/
DashMatch(s) ==
    IF StartsWith(s, P_dash)
    THEN LET j == FirstOf(Drop(s, Len(P_dash)), {".", "\n"}) IN
         IF j = 0 THEN 0 ELSE Len(P_dash) + j
    ELSE 0

\* /\[.*?\]/  (the dot does not match a line break)
BracketMatch(s) ==
    IF s # <<>> /\ Head(s) = "["
    THEN LET j == FirstOf(Tail(s), {"]", "\n"}) IN
         IF j # 0 /\ Tail(s)[j] = "]" THEN 1 + j ELSE 0
    ELSE 0

\* the length the regular expression named by re matches at the start of s
MatchLen(re, s) ==
    CASE re = "url" -> UrlMatch(s)
      [] re = "pic" -> PicMatch(s)
      [] re = "dash" -> DashMatch(s)
      [] re = "bracket" -> BracketMatch(s)

\* s.replace(re, "") with the g flag: the matches are removed left to right
RECURSIVE RemoveMatches(_, _)
RemoveMatches(s, re) ==
    LET at == {i \in 1..Len(s) : MatchLen(re, Drop(s, i - 1)) > 0}
    IN IF at = {} THEN s
       ELSE LET k == Least(at)
                n == MatchLen(re, Drop(s, k - 1))
            IN SubSeq(s, 1, k - 1) \o RemoveMatches(Drop(s, k - 1 + n), re)

\* text.split("Also Read")[0]
BeforeAlsoRead(s) ==
    LET at == {i \in 1..Len(s) : StartsWith(Drop(s, i - 1), P_also)}
    IN IF at = {} THEN s ELSE SubSeq(s, 1, Least(at) - 1)

IsDigit(c) == c \in Range(DigitChars)

\* text.replace(/(\d)\.(\d)/g, "$1_DECIMAL_$2")
RECURSIVE ProtectDecimals(_)
ProtectDecimals(s) ==
    LET at == {i \in 1..(Len(s) - 2) :
                  IsDigit(s[i]) /\ s[i + 1] = "." /\ IsDigit(s[i + 2])}
    IN IF at = {} THEN s
       ELSE LET k == Least(at)
            IN SubSeq(s, 1, k) \o P_dec \o <<s[k + 2]>> \o ProtectDecimals(Drop(s, k + 2))

\* sentence.replace(/_DECIMAL_/g, ".")
RECURSIVE RestoreDecimals(_)
RestoreDecimals(s) ==
    LET at == {i \in 1..Len(s) : StartsWith(Drop(s, i - 1), P_dec)}
    IN IF at = {} THEN s
       ELSE LET k == Least(at)
            IN SubSeq(s, 1, k - 1) \o <<".">>
                   \o RestoreDecimals(Drop(s, k - 1 + Len(P_dec)))

\* text.replace(/\s+/g, " ")
IsKept(p) == p[2]

\* of each run of whitespace the last character stays, as one space
CollapseSpace(s) ==
    LET marked == [i \in 1..Len(s) |->
                      <<IF IsSpaceChar(s[i]) THEN " " ELSE s[i],
                        ~(IsSpaceChar(s[i]) /\ i < Len(s) /\ IsSpaceChar(s[i + 1]))>>]
        kept == SelectSeq(marked, IsKept)
    IN [j \in 1..Len(kept) |-> kept[j][1]]

\* the indices of the characters of s that are not whitespace
InkOf(s) == {i \in 1..Len(s) : ~IsSpaceChar(s[i])}

TrimLeft(s) == IF InkOf(s) = {} THEN <<>> ELSE Drop(s, Least(InkOf(s)) - 1)

TrimRight(s) == IF InkOf(s) = {} THEN <<>> ELSE SubSeq(s, 1, Greatest(InkOf(s)))

\* String.prototype.trim
trim(s) == TrimRight(TrimLeft(s))

IsTerminator(c) == c \in {".", "!", "?"}

\* the length of the longest prefix of s made of terminators
TermRun(s) ==
    LET at == {i \in 1..Len(s) : ~IsTerminator(s[i])}
    IN IF at = {} THEN Len(s) ELSE Least(at) - 1

\* the length of the longest prefix of s without a terminator
NonTermRun(s) ==
    LET at == {i \in 1..Len(s) : IsTerminator(s[i])}
    IN IF at = {} THEN Len(s) ELSE Least(at) - 1

\* text.match(/[^\.!\?]+[\.!\?]+/g): <<>> stands for null (no match)
RECURSIVE MatchSentences(_)
MatchSentences(s) ==
    IF s = <<>> THEN <<>>
    ELSE LET a == NonTermRun(s)
             b == TermRun(Drop(s, a))
         IN IF a = 0 THEN MatchSentences(Drop(s, TermRun(s)))
            ELSE IF b = 0 THEN <<>>
            ELSE <<SubSeq(s, 1, a + b)>> \o MatchSentences(Drop(s, a + b))

\* every sentence joined, whatever the word counts
RECURSIVE EverySentence(_, _, _, _, _)
EverySentence(sentences, finalText, wordCount, minWords, maxWords) ==
    IF sentences = <<>> THEN finalText
    ELSE EverySentence(Tail(sentences),
                       finalText \o trim(RestoreDecimals(Head(sentences))) \o <<" ">>,
                       wordCount, minWords, maxWords)

\* the loop of the sentence cleaner: finalText after the sentences from index i on
RECURSIVE AddSentences(_, _, _, _, _)
AddSentences(sentences, finalText, wordCount, minWords, maxWords) ==
    IF sentences = <<>> THEN finalText
    ELSE LET restored == RestoreDecimals(Head(sentences))
             words == Len(split(trim(restored)))
         IN IF wordCount + words > maxWords THEN finalText
            ELSE IF wordCount + words >= minWords
                 THEN finalText \o trim(restored) \o <<" ">>
                 ELSE AddSentences(Tail(sentences), finalText \o trim(restored) \o <<" ">>,
                                   wordCount + words, minWords, maxWords)

\* the statements of the sentence cleaner that rewrite text, in order
CleanerSteps == <<"url", "pic", "dash", "bracket", "also", "decimal", "space", "trim">>

\* one statement of the sentence cleaner applied to s
CleanStep(step, s) ==
    CASE step \in {"url", "pic", "dash", "bracket"} -> RemoveMatches(s, step)
      [] step = "also" -> BeforeAlsoRead(s)
      [] step = "decimal" -> ProtectDecimals(s)
      [] step = "space" -> CollapseSpace(s)
      [] step = "trim" -> trim(s)

RECURSIVE CleanSteps(_, _)
CleanSteps(steps, s) ==
    IF steps = <<>> THEN s ELSE CleanSteps(Tail(steps), CleanStep(Head(steps), s))

\* cleanAndTrimSummary(text, minWords, maxWords) of index.js 35, part_004 36
cleanAndTrimSummary(text, minWords, maxWords) ==
    IF text = <<>> THEN <<>>
    ELSE CHOOSE finalText \in
             {IF sentences = <<>> THEN <<>>
              ELSE trim(AddSentences(sentences, <<>>, 0, minWords, maxWords)) :
                 sentences \in {MatchSentences(CleanSteps(CleanerSteps, text))}} : TRUE

\* the default arguments of the sentence cleaner
MinWords == 80
MaxWords == 110

RECURSIVE DotsAtEnd(_)
DotsAtEnd(x) ==
    IF x # <<>> /\ x[Len(x)] = "." THEN 1 + DotsAtEnd(SubSeq(x, 1, Len(x) - 1)) ELSE 0

\* the number of dots /\.\.\.+$/ needs at the end
EllipsisDots == 3

\* cleaned.replace(/\.\.\.+$/, ""): three or more dots at the end
StripEllipsis(s) ==
    LET n == DotsAtEnd(s) IN IF n >= EllipsisDots THEN SubSeq(s, 1, Len(s) - n) ELSE s

\* words.slice(0, n).join(" ")
RECURSIVE JoinWords(_)
JoinWords(ws) ==
    IF ws = <<>> THEN <<>>
    ELSE IF Len(ws) = 1 THEN Head(ws)
    ELSE Head(ws) \o <<" ">> \o JoinWords(Tail(ws))

\* trimmed.lastIndexOf("."), 0-based, -1 when there is none
RECURSIVE lastIndexOfDot(_)
lastIndexOfDot(s) ==
    IF s = <<>> THEN -1
    ELSE IF s[Len(s)] = "." THEN Len(s) - 1
    ELSE lastIndexOfDot(SubSeq(s, 1, Len(s) - 1))

\* the index a last period must exceed for the text to be cut there
PeriodCut == 60

\* cleanAndTrimSummary(text, maxWords) of index.js 856: the word cleaner
trimSummaryWords(text, maxWords) ==
    IF text = <<>> THEN <<>>
    ELSE LET cleaned == StripEllipsis(trim(CollapseSpace(text)))
             words == split(cleaned)
         IN IF Len(words) <= maxWords THEN cleaned
            ELSE LET trimmed == JoinWords(SubSeq(words, 1, maxWords))
                     lastPeriod == lastIndexOfDot(trimmed)
                 IN IF lastPeriod > PeriodCut THEN SubSeq(trimmed, 1, lastPeriod + 1)
                    ELSE trimmed \o <<".">>

\* the maxWords the near-duplicate script of index.js passes
WordLimit == 100

(* ------------------------------ variants ------------------------------ *)

\* the scripts: index1..index4 are the four scripts of src/index.js in order,
\* part004a and part004b the two of part_004
ExactVariants == {"index1", "index2", "index3", "part000", "part001", "part002",
                  "part003", "part004b"}
NearVariants == {"index4", "part004a"}

\* what the duplicate lookup compares
DedupKey(v) ==
    IF v \in {"index1", "part000"} THEN "sourceUrl"
    ELSE IF v \in NearVariants THEN "near" ELSE "title"

\* the calls one fetchNews makes in sequence: the languages of fetchNewsByLanguage,
\* the feeds of the RSS script, one call elsewhere
Segments(v) ==
    IF v \in {"index1", "part000"} THEN <<"en", "hi">>
    ELSE IF v = "index3" THEN <<"feed1", "feed2", "feed3">>
    ELSE <<"en">>

\* one try/catch around the languages of a run
CatchAroundRun(v) == FALSE

\* TRUE when each segment has its own try/catch (fetchNewsByLanguage)
CatchPerSegment(v) == v \in {"index1", "part000"}

\* the scripts that clean the description by sentences and skip empty summaries
SentenceVariants == {"index1", "part000", "part004a"}

\* the field of a document the duplicate lookup of script v compares
KeyOf(v, doc) == IF DedupKey(v) = "sourceUrl" THEN doc.sourceUrl ELSE doc.title

\* the language field of an inserted document ("" where the script sets none)
LanguageOf(v, seg) == IF v \in {"index1", "part000"} THEN Segments(v)[seg] ELSE ""

(* ------------------------- the incoming articles ---------------------- *)

T_a == <<"M","o","d","i"," ","w","i","n","s"," ","v","o","t","e">>
T_b == <<"M","O","D","I"," ","w","i","n","s"," ","v","o","t","e","!">>
T_c == <<"M","o","d","i"," ","w","i","n","s"," ","v","o","t","e"," ","a","g","a","i","n">>
T_d == <<"L","I","V","E",":"," ","M","o","d","i"," ","w","i","n","s"," ","s","e","a","t">>
T_e == <<"U","p"," ","b","y"," ","5","%">>
T_f == <<"A","l","e","r","t",":"," ","r","a","i","n">>

D_long  == <<"M","o","d","i"," ","w","o","n","."," ","U","p"," ","2",".","5","%","!">>
D_short == <<"B","i","g"," ","[","a","d","]"," ","w","i","n",".">>
D_none  == <<"n","o"," ","e","n","d">>

C_world == <<"W","o","r","l","d">>
C_top   == <<"t","o","p">>
C_mixed == <<"H","e","a","l","t","h"," ","T","e","c","h","n","o","l","o","g","y"," ","W","o","r","l","d">>

\* an element of response.data.results / articles / feed.items; <<>> and "" stand
\* for an absent or empty field
ItemTable == <<
    [title |-> T_a,  link |-> "u1", description |-> D_long,  image |-> "",
     category |-> C_world, source |-> "src1"],
    [title |-> T_a,  link |-> "u2", description |-> D_short, image |-> "img2",
     category |-> <<>>,    source |-> ""],
    [title |-> T_d,  link |-> "u1", description |-> D_long,  image |-> "img3",
     category |-> C_top,   source |-> "src3"],
    [title |-> T_c,  link |-> "u3", description |-> D_none,  image |-> "",
     category |-> C_mixed, source |-> "src4"],
    [title |-> <<>>, link |-> "u4", description |-> D_long,  image |-> "",
     category |-> <<>>,    source |-> ""],
    [title |-> T_b,  link |-> "",   description |-> D_short, image |-> "",
     category |-> <<>>,    source |-> ""],
    [title |-> T_b,  link |-> "u5", description |-> D_long,  image |-> "img7",
     category |-> C_world, source |-> "src7"],
    [title |-> T_e,  link |-> "u6", description |-> <<>>,    image |-> "",
     category |-> C_top,   source |-> "src8"],
    [title |-> T_f,  link |-> "u9", description |-> D_none,  image |-> "",
     category |-> C_world, source |-> "src9"] >>

\* the most articles in one response
MaxResp == 2
\* the most documents the store holds
MaxDocs == 3

Ids == 1..MaxDocs

AllVariants == ExactVariants \cup NearVariants

Item(i) == ItemTable[i]

\* the summary a script computes from the description before it stores it
Summarize(v, item) ==
    IF v \in SentenceVariants THEN cleanAndTrimSummary(item.description, MinWords, MaxWords)
    ELSE IF v = "index4" THEN trimSummaryWords(item.description, WordLimit)
    ELSE item.description

\* the values of the pure helpers on the articles, computed once
SummaryTable == [v \in AllVariants |-> [i \in DOMAIN ItemTable |-> Summarize(v, Item(i))]]
WordsTable == [i \in DOMAIN ItemTable |-> normalizeTitle(Item(i).title)]
BreakingTable == [i \in DOMAIN ItemTable |-> isBreaking(Item(i).title)]

\* the category a script computes for an article without a classification service:
\* "India" in part_001, from contentSnippet and title in the RSS script, from
\* item.category?.[0] elsewhere
Classify(v, item) ==
    IF v = "part001" THEN "India"
    ELSE IF v = "index3"
         THEN detectCategoryFromKeywords(item.description \o <<" ">> \o item.title)
    ELSE IF v = "index2" THEN mapCategoryIndex2(item.category)
    ELSE IF v = "part004b" THEN mapCategoryPart004b(item.category)
    ELSE mapCategory(item.category)

CategoryTable == [v \in AllVariants |-> [i \in DOMAIN ItemTable |-> Classify(v, Item(i))]]

SummaryOf(v, i) == SummaryTable[v][i]

\* normalizeTitle of a stored title (every stored title is the title of an article)
WordsOf(title) == WordsTable[CHOOSE i \in DOMAIN ItemTable : Item(i).title = title]

\* the category a script stores without asking a classification service
CategoryOf(v, i) == CategoryTable[v][i]

\* the scripts whose documents carry the breaking flag
BreakingVariants == AllVariants \ {"index3", "part001", "part002", "part003"}

\* the document db.collection("news").add() receives for article i; timestamp is the
\* server timestamp in whole milliseconds and micros the microseconds beyond them
\* (the fetch and delete specifications work with whole milliseconds)
NewDoc(v, seg, i, summary, category, ts) ==
    [title |-> Item(i).title, summary |-> summary, category |-> category,
     language |-> LanguageOf(v, seg),
     source |-> IF Item(i).source = "" /\ v # "part002" THEN "News" ELSE Item(i).source,
     sourceUrl |-> Item(i).link, image |-> Item(i).image,
     breaking |-> v \in BreakingVariants /\ BreakingTable[i],
     likes |-> 0, views |-> 0, likedBy |-> {}, viewedBy |-> {}, timestamp |-> ts, micros |-> 0]

(* ------------------------------ the store ----------------------------- *)

\* no read request has been answered
NoPage == [status |-> 0]

\* let cachedNews = []; let lastFetchTime = 0;
NoCache == [cachedNews |-> <<>>, lastFetchTime |-> 0, readAt |-> 0]

Hour == 60 * 60 * 1000

\* document a has an earlier timestamp than document b
Older(a, b) ==
    \/ a.timestamp < b.timestamp
    \/ a.timestamp = b.timestamp /\ a.micros < b.micros

\* the timestamp of the document is later than the Date of ms milliseconds
After(doc, ms) == doc.timestamp > ms \/ (doc.timestamp = ms /\ doc.micros > 0)

\* the number of documents of ids that a query ordered by timestamp ascending
\* returns before document i (Firestore breaks ties by document id)
RankOf(store, ids, i) ==
    Cardinality({j \in ids : \/ Older(store[j], store[i])
                             \/ ~Older(store[i], store[j]) /\ j < i})

\* the documents of ids in the order of a query ordered by timestamp ascending
Ascending(store, ids) ==
    LET ranked == {<<RankOf(store, ids, i), i>> : i \in ids}
    IN [r \in 1..Cardinality(ids) |->
           LET i == (CHOOSE p \in ranked : p[1] = r - 1)[2]
           IN [id |-> i, data |-> store[i]]]

Reverse(q) == [i \in 1..Len(q) |-> q[Len(q) + 1 - i]]

Take(q, n) == SubSeq(q, 1, IF n < Len(q) THEN n ELSE Len(q))

\* a lookup that reads one document (limit(1) ahead of where) and compares it
NoneWithFirst(store, field, value) ==
    \A i \in DOMAIN store : (\A j \in DOMAIN store : i <= j) => store[i][field] # value

\* a lookup that always finds a document
AlwaysFound(store, field, value) == FALSE

\* .where(field, "==", value).get().empty
NoneWith(store, field, value) == \A i \in DOMAIN store : store[i][field] # value

\* the id add() gives the new document: one the store does not hold
AutoId(store) == CHOOSE i \in Ids \ DOMAIN store : \A j \in Ids \ DOMAIN store : i <= j

\* db.collection("news").add(doc)
Put(store, id, doc) == [i \in DOMAIN store \cup {id} |-> IF i = id THEN doc ELSE store[i]]

(* ------------------------------ fetchNews ----------------------------- *)

\* the fetchNews calls that can be in flight together: the one made when the script
\* is loaded and the one the timer makes
RunIds == {1, 2}

NoAi == [summary |-> <<>>, category |-> "", answer |-> ""]

\* a run reads its response one article at a time: item is the article the loop is
\* at, left the number of articles after it
IdleRun == [pc |-> "idle", seg |-> 0, item |-> 0, left |-> 0, held |-> 0,
            window |-> <<>>, ai |-> NoAi, ref |-> 0, to |-> {}]

\* deleteOldNews when it is not running; caught tells that its last call ended in
\* the catch. cleanExistingSummaries uses the same record: cleaned maps each document
\* of its snapshot to the value of its local of that name
IdleJob == [pc |-> "idle", started |-> 0, sevenDaysAgo |-> 0, batch |-> {}, caught |-> FALSE,
            cleaned |-> <<>>]

\* what a run in flight has done so far, and whether its latest step was the catch
\* of a try logging an error
FreshLog == [caught |-> FALSE, inserted |-> {}, updated |-> {}, skipped |-> 0, bad |-> {}]

\* the loop over the window: the index of duplicateDoc in the window, 0 for null
RECURSIVE FindDuplicate(_, _, _, _, _)
FindDuplicate(newWords, window, i, best, highestSim) ==
    IF i > Len(window) THEN best
    ELSE LET sim == similarity(newWords, WordsOf(window[i].data.title)) IN
         IF AboveThreshold(sim) /\ RatioGreater(sim, highestSim)
         THEN FindDuplicate(newWords, window, i + 1, i, sim)
         ELSE FindDuplicate(newWords, window, i + 1, best, highestSim)

DuplicateOf(i, window) == FindDuplicate(WordsTable[i], window, 1, 0, <<0, 1>>)

\* a merge that takes every summary and image that differs
MergeDiffering(dup, summary, image) ==
    (IF summary # dup.summary THEN {"summary"} ELSE {})
        \cup (IF image # dup.image THEN {"image"} ELSE {})

\* the update object of the merge: the fields it sets
MergeUpdate(dup, summary, image) ==
    (IF Len(summary) > Len(dup.summary) THEN {"summary"} ELSE {})
        \cup (IF dup.image = "" /\ image # "" THEN {"image"} ELSE {})

\* a loop that passes no article by
SkipsNone(v, i) == FALSE

\* if (!item.title || !item.link) continue; and, where the summary is cleaned by
\* sentences, if (!summary) continue;
Skips(v, i) ==
    \/ Item(i).title = <<>> \/ Item(i).link = ""
    \/ v \in SentenceVariants /\ SummaryOf(v, i) = <<>>

\* the await article i leads to, "none" when the loop goes on without one
AwaitOf(v, i, window) ==
    IF Skips(v, i) THEN "none"
    ELSE IF v \in NearVariants
         THEN LET d == DuplicateOf(i, window) IN
              IF d = 0 THEN "add"
              ELSE IF MergeUpdate(window[d].data, SummaryOf(v, i), Item(i).image) = {}
                   THEN "none" ELSE "update"
         ELSE "lookup"

\* the end of a segment's loop: the next language or feed, or the end of the run
EndSegment(v, run) ==
    IF run.seg < Len(Segments(v))
    THEN [IdleRun EXCEPT !.pc = "api", !.seg = run.seg + 1]
    ELSE IdleRun

\* the positions the loop can reach next when n articles are still unread: it
\* passes the articles that need no await and stops at the first that needs one
\* (the k-th of the n), or leaves the loop
Continue(v, run, n) ==
    LET skip == {i \in feed : AwaitOf(v, i, run.window) = "none"}
        ks == IF skip = {} THEN {k \in {1} : k <= n} ELSE 1..n
    IN {[run EXCEPT !.pc = AwaitOf(v, i, run.window), !.item = i, !.left = n - k,
                    !.held = 0, !.ai = NoAi, !.to = {},
                    !.ref = IF AwaitOf(v, i, run.window) = "update"
                            THEN run.window[DuplicateOf(i, run.window)].id ELSE 0] :
            i \in feed \ skip, k \in ks}
       \cup (IF n = 0 \/ skip # {} THEN {EndSegment(v, run)} ELSE {})

\* the log of run r after a step that takes it to position next
Logged(r, next, entry) == IF next.pc = "idle"
                          THEN [FreshLog EXCEPT !.caught = entry.caught, !.bad = entry.bad]
                          ELSE entry

\* the log of a run whose step is neither a catch nor the skip of a duplicate
Plain(entry) == [entry EXCEPT !.caught = FALSE, !.skipped = 0]

\* run r moves to one of the positions nexts; the run of part_002 that leaves its
\* loop without an error sets lastFetchTime = Date.now()
Goes(r, nexts, entry) ==
    \E next \in nexts :
        /\ runs' = [runs EXCEPT ![r] = next]
        /\ log' = [log EXCEPT ![r] = Logged(r, next, entry)]
        /\ cache' = IF variant = "part002" /\ next.pc = "idle" /\ ~entry.caught
                    THEN [cache EXCEPT !.lastFetchTime = now]
                    ELSE cache

\* feed.items.slice(0, 10)
SliceLimit == 10

\* hoursWindow
HoursWindow == 6

Min(a, b) == IF a < b THEN a ELSE b

\* a timer tick (cron.schedule) calls fetchNews, whatever the earlier calls do
Tick(r) ==
    /\ runs[r].pc = "idle"
    /\ runs' = [runs EXCEPT ![r] = [IdleRun EXCEPT !.pc = "api", !.seg = 1]]
    /\ log' = [log EXCEPT ![r] = FreshLog]
    /\ UNCHANGED <<variant, news, now, reqs, resp, jobs, commits, tokens, pushed, feed, page, cache>>

\* axios.get / parser.parseURL answers with n articles; the two answers of
\* part_000 have at most MaxResp articles together
ApiReturn(r) ==
    /\ runs[r].pc \in {"api", "api2"}
    /\ \E n \in 0..(MaxResp - runs[r].held) :
        LET run == runs[r] IN
        Goes(r, IF variant = "part000" /\ run.pc = "api"
                THEN {[run EXCEPT !.pc = "api2", !.held = n]}
                ELSE IF variant \in NearVariants
                THEN {[run EXCEPT !.pc = "window", !.held = n]}
                ELSE IF variant = "index3"
                THEN Continue(variant, run, Min(n, SliceLimit))
                ELSE Continue(variant, run, run.held + n),
             Plain(log[r]))
    /\ UNCHANGED <<variant, news, now, reqs, resp, jobs, commits, tokens, pushed, feed, page>>

\* the query for the documents of the last hoursWindow hours answers
Window(r) ==
    /\ runs[r].pc = "window"
    /\ LET run == runs[r]
           cutoff == now - HoursWindow * Hour
           recent == Ascending(news, {i \in DOMAIN news : After(news[i], cutoff)})
       IN Goes(r, Continue(variant, [run EXCEPT !.window = recent], run.held), Plain(log[r]))
    /\ UNCHANGED <<variant, news, now, reqs, resp, jobs, commits, tokens, pushed, feed, page>>

\* the duplicate query of the exact-match scripts answers
Lookup(r) ==
    /\ runs[r].pc = "lookup"
    /\ LET run == runs[r]
           item == Item(run.item)
           empty == IF DedupKey(variant) = "sourceUrl"
                    THEN NoneWith(news, "sourceUrl", item.link)
                    ELSE NoneWith(news, "title", item.title)
       IN Goes(r, IF ~empty THEN Continue(variant, run, run.left)
                  ELSE IF variant \in {"part002", "part003"} THEN {[run EXCEPT !.pc = "ai"]}
                  ELSE {[run EXCEPT !.pc = "add"]},
               [log[r] EXCEPT !.caught = FALSE,
                              !.skipped = IF empty THEN 0 ELSE run.item])
    /\ UNCHANGED <<variant, news, now, reqs, resp, jobs, commits, tokens, pushed, feed, page>>

\* VALID_CATEGORIES of part_002
VALID_CATEGORIES == {"India", "World", "Business", "Sports", "Technology", "Health"}

A_ok == <<"o","k",".">>

\* what the classification service may answer: the text of a category, right or not
AiTexts == {"Sports", "Politics"}

\* a script that stores the category the service answers
Unvalidated(v, text) == text

\* if (VALID_CATEGORIES.includes(parsed.category)) ... else aiCategory = "India", in
\* part_002; part_003 stores the trimmed answer
Validated(v, text) == IF v = "part002" /\ text \notin VALID_CATEGORIES THEN "India" ELSE text

\* the chat completion answers (part_002: summary and category; part_003: category)
Ai(r) ==
    /\ runs[r].pc = "ai"
    /\ \E text \in AiTexts :
        Goes(r, {[runs[r] EXCEPT !.pc = "add", !.ai =
                    [summary |-> IF variant = "part002" THEN A_ok
                                 ELSE Item(runs[r].item).description,
                     category |-> Validated(variant, text), answer |-> text]]},
             Plain(log[r]))
    /\ UNCHANGED <<variant, news, now, reqs, resp, jobs, commits, tokens, pushed, feed, page>>

\* a catch that ends the run
EndsRun(v, run) == {IdleRun}

\* catch (err) { console.log("AI failed. Skipping article."); continue; }
SkipArticle(v, run) == Continue(v, run, run.left)

\* the chat completion fails: part_002 skips the article, detectCategory of
\* part_003 returns "India"
AiFail(r) ==
    /\ runs[r].pc = "ai"
    /\ Goes(r, IF variant = "part002" THEN SkipArticle(variant, runs[r])
               ELSE {[runs[r] EXCEPT !.pc = "add", !.ai =
                        [summary |-> Item(runs[r].item).description,
                         category |-> "India", answer |-> ""]]},
            [Plain(log[r]) EXCEPT !.bad = @ \cup {"failed"}])
    /\ UNCHANGED <<variant, news, now, reqs, resp, jobs, commits, tokens, pushed, feed, page>>

\* the chat completion of part_002 answers a text that is not JSON: JSON.parse
\* throws and the article is skipped
AiUnparsed(r) ==
    /\ variant = "part002"
    /\ runs[r].pc = "ai"
    /\ Goes(r, SkipArticle(variant, runs[r]),
            [Plain(log[r]) EXCEPT !.bad = @ \cup {"unparsed"}])
    /\ UNCHANGED <<variant, news, now, reqs, resp, jobs, commits, tokens, pushed, feed, page>>

\* a script that calls sendBreakingPush for every inserted document
PushesAll(v, doc) == v = "part000"

\* if (breaking) await sendBreakingPush(...), in part_000
Pushes(v, doc) == v = "part000" /\ doc.breaking

\* an add that stores nothing when a document with the key has appeared
AddIfAbsent(r) ==
    /\ runs[r].pc = "add"
    /\ Ids \ DOMAIN news # {}
    /\ LET run == runs[r]
           i == run.item
           id == AutoId(news)
           ai == variant \in {"part002", "part003"}
           doc == NewDoc(variant, run.seg, i,
                         IF ai THEN run.ai.summary ELSE SummaryOf(variant, i),
                         IF ai THEN run.ai.category ELSE CategoryOf(variant, i),
                         now)
           free == NoneWith(news, DedupKey(variant), KeyOf(variant, doc))
       IN /\ news' = IF free THEN Put(news, id, doc) ELSE news
          /\ Goes(r, IF Pushes(variant, doc)
                     THEN {[run EXCEPT !.pc = "pushq", !.ref = id]}
                     ELSE Continue(variant, run, run.left),
                  [Plain(log[r]) EXCEPT !.inserted = IF free THEN @ \cup {id} ELSE @])
    /\ UNCHANGED <<variant, now, reqs, resp, jobs, commits, tokens, pushed, feed, page>>

\* db.collection("news").add(...) is applied; the server sets the timestamp
Add(r) ==
    /\ runs[r].pc = "add"
    /\ Ids \ DOMAIN news # {}
    /\ LET run == runs[r]
           i == run.item
           id == AutoId(news)
           ai == variant \in {"part002", "part003"}
           doc == NewDoc(variant, run.seg, i,
                         IF ai THEN run.ai.summary ELSE SummaryOf(variant, i),
                         IF ai THEN run.ai.category ELSE CategoryOf(variant, i),
                         now)
       IN /\ news' = Put(news, id, doc)
          /\ Goes(r, IF Pushes(variant, doc)
                     THEN {[run EXCEPT !.pc = "pushq", !.ref = id]}
                     ELSE Continue(variant, run, run.left),
                  [Plain(log[r]) EXCEPT !.inserted = @ \cup {id}])
    /\ UNCHANGED <<variant, now, reqs, resp, jobs, commits, tokens, pushed, feed, page>>

\* docRef.update(update) of the merge is applied to a document that still exists;
\* the update object was computed from the window's copy of the document
Update(r) ==
    /\ runs[r].pc = "update"
    /\ LET run == runs[r]
           i == run.item
           dup == CHOOSE d \in Range(run.window) : d.id = run.ref
           summary == SummaryOf(variant, i)
           fields == MergeUpdate(dup.data, summary, Item(i).image)
       IN /\ dup.id \in DOMAIN news
          /\ news' = [news EXCEPT ![dup.id] =
                 [@ EXCEPT !.summary = IF "summary" \in fields THEN summary ELSE @,
                           !.image = IF "image" \in fields THEN Item(i).image ELSE @]]
          /\ Goes(r, Continue(variant, run, run.left),
                  [Plain(log[r]) EXCEPT !.updated = @ \cup {dup.id}])
    /\ UNCHANGED <<variant, now, reqs, resp, jobs, commits, tokens, pushed, feed, page>>

\* an awaited call of the run throws (the request fails, a store read or write is
\* rejected, the merged document is gone): the catch of its try logs the error
Throw(r) ==
    /\ runs[r].pc \in {"api", "api2", "window", "lookup", "add", "update"}
    /\ Goes(r, {IF CatchPerSegment(variant) THEN EndSegment(variant, runs[r]) ELSE IdleRun},
            [log[r] EXCEPT !.caught = TRUE, !.skipped = 0, !.bad = @ \cup {"failed"}])
    /\ UNCHANGED <<variant, news, now, reqs, resp, jobs, commits, tokens, pushed, feed, page>>

\* a query that returns every registration
EveryToken(store, language, category) == DOMAIN store

\* .where("language", "==", articleData.language)
\* .where("interests", "array-contains", articleData.category)
MatchingTokens(store, language, category) ==
    {t \in DOMAIN store : /\ store[t].language = language
                          /\ category \in store[t].interests}

\* sendBreakingPush: the fcmTokens query answers
PushQuery(r) ==
    /\ runs[r].pc = "pushq"
    /\ LET run == runs[r]
           found == MatchingTokens(tokens, LanguageOf(variant, run.seg),
                                   CategoryOf(variant, run.item))
       IN Goes(r, IF found = {} THEN Continue(variant, run, run.left)
                  ELSE {[run EXCEPT !.pc = "pushsend", !.to = found]},
               Plain(log[r]))
    /\ UNCHANGED <<variant, news, now, reqs, resp, jobs, commits, tokens, pushed, feed, page>>

\* sendBreakingPush: sendEachForMulticast answers
PushSend(r) ==
    /\ runs[r].pc = "pushsend"
    /\ pushed' = pushed (+) SetToBag({[id |-> runs[r].ref, to |-> runs[r].to]})
    /\ Goes(r, Continue(variant, runs[r], runs[r].left), Plain(log[r]))
    /\ UNCHANGED <<variant, news, now, reqs, resp, jobs, commits, tokens, feed, page>>

\* sendBreakingPush: the query or the send throws; its own catch logs the error
PushThrow(r) ==
    /\ runs[r].pc \in {"pushq", "pushsend"}
    /\ Goes(r, Continue(variant, runs[r], runs[r].left),
            [Plain(log[r]) EXCEPT !.bad = @ \cup {"failed"}])
    /\ UNCHANGED <<variant, news, now, reqs, resp, jobs, commits, tokens, pushed, feed, page>>

\* the hours between two moments of the model's clock, and its last moment
ClockStep == 3
MaxClock == 6

\* time passes while no run is in flight
Pass ==
    /\ \A r \in RunIds : runs[r].pc = "idle"
    /\ now + ClockStep * Hour <= MaxClock * Hour
    /\ now' = now + ClockStep * Hour
    /\ UNCHANGED <<variant, news, runs, log, reqs, resp, jobs, commits, tokens, pushed, feed, page, cache>>

(* --------------------- the exact-match scripts ------------------------ *)

\* the registrations of the push script's fcmTokens collection
PushTokens == [tok1 |-> [language |-> "en", interests |-> {"India", "World"}],
               tok2 |-> [language |-> "hi", interests |-> {"Sports"}]]

\* the state once the script has been loaded: fetchNews() has been called and
\* waits for the news source
InitFetch(vs, articles) ==
    /\ variant \in vs
    /\ feed = articles
    /\ news = <<>>
    /\ now = 0
    /\ runs = [r \in RunIds |-> IF r = 1 THEN [IdleRun EXCEPT !.pc = "api", !.seg = 1]
                                ELSE IdleRun]
    /\ log = [r \in RunIds |-> FreshLog]
    /\ reqs = <<>>
    /\ resp = <<>>
    /\ jobs = IdleJob
    /\ commits = 0
    /\ tokens = IF variant = "part000" THEN PushTokens ELSE <<>>
    /\ pushed = EmptyBag
    /\ page = NoPage
    /\ cache = NoCache

FetchStep(r) ==
    \/ ApiReturn(r) \/ Lookup(r) \/ Ai(r) \/ AiFail(r) \/ AiUnparsed(r) \/ Add(r) \/ Throw(r)
    \/ PushQuery(r) \/ PushSend(r) \/ PushThrow(r)

\* the articles of the exact-match runs: two with one title, two with one link, one
\* without a title
ExactItems == {1, 2, 3, 5}

\* the articles of the overlapping runs: two with one link
OverlapItems == {1, 3}

\* the scripts of the overlapping runs: one for each shape of the loop (lookup by
\* link with two languages, lookup by title, with push, with the AI call)
OverlapVariants == {"index1", "index2", "part000", "part002"}

Init == InitFetch(OverlapVariants, OverlapItems)

InitSeq == InitFetch(ExactVariants, ExactItems)

\* the runs overlap freely: nothing keeps a tick from starting a run while another
\* run is in flight
Next == \E r \in RunIds : Tick(r) \/ FetchStep(r)

Spec == Init /\ [][Next]_vars

\* the same scripts when no tick arrives while a run is in flight
NextSeq ==
    \E r \in RunIds : (Tick(r) /\ \A q \in RunIds : runs[q].pc = "idle") \/ FetchStep(r)

SpecSeq == InitSeq /\ [][NextSeq]_vars

(* ------------------------- the push script ---------------------------- *)

\* the articles of the push runs: one that is not breaking, a breaking one, and a
\* breaking one whose cleaned summary is empty
PushItems == {1, 3, 9}

InitPush == InitFetch({"part000"}, PushItems)

NextPush ==
    \E r \in RunIds :
        \/ Tick(r)
        \/ ApiReturn(r) \/ Lookup(r) \/ Add(r) \/ Throw(r)
        \/ PushQuery(r) \/ PushSend(r) \/ PushThrow(r)

SpecPush == InitPush /\ [][NextPush]_vars

(* ---------------------- the near-duplicate scripts -------------------- *)

\* the articles of the near-duplicate runs: equal and similar titles, an image or
\* none, summaries of three lengths, a title without a word longer than 3 letters
NearItems == {1, 2, 4, 7, 8}

InitNear == InitFetch(NearVariants, NearItems)

\* one run at a time
NextNear ==
    \/ \E r \in {1} :
          \/ Tick(r)
          \/ ApiReturn(r) \/ Window(r) \/ Add(r) \/ Update(r) \/ Throw(r)
    \/ Pass

SpecNear == InitNear /\ [][NextNear]_vars

(* -------------------- every script, one run at a time ----------------- *)

\* the articles of these runs: one without a category, a breaking one of category
\* 'top', one with a similar title, no sentence and three categories, one without a
\* title, one without a link, one with neither a description nor a keyword
StoreItems == {2, 3, 4, 5, 6, 8}

InitStore == InitFetch(AllVariants, StoreItems)

NextStore ==
    \E r \in {1} :
        \/ Tick(r)
        \/ ApiReturn(r) \/ Window(r) \/ Lookup(r) \/ Ai(r) \/ AiFail(r) \/ AiUnparsed(r)
        \/ Add(r) \/ Update(r) \/ Throw(r) \/ PushQuery(r) \/ PushSend(r) \/ PushThrow(r)

SpecStore == InitStore /\ [][NextStore]_vars

(* ------------------- a source that keeps its article ------------------ *)

\* the article every response holds: it has a title, a link and a summary
LiveItems == {2}

InitLive == InitFetch(AllVariants, LiveItems)

\* the request answers with a response that is not empty
LiveReturn(r) ==
    /\ ApiReturn(r)
    /\ runs'[r].pc = "lookup" \/ runs'[r].held >= 1

\* an awaited call of run r settles, with a result or with an error
Settle(r) ==
    \/ LiveReturn(r) \/ Window(r) \/ Lookup(r) \/ Ai(r) \/ AiFail(r) \/ AiUnparsed(r)
    \/ Add(r) \/ Throw(r)

NextLive == \E r \in {1} : Tick(r) \/ Settle(r)

\* the timer keeps ticking (cron.schedule) and every awaited call settles
SpecLive == InitLive /\ [][NextLive]_vars /\ WF_vars(Tick(1)) /\ WF_vars(Settle(1))

(* --------------------- the like and view routes ----------------------- *)

\* the scripts with a like or view route
RouteVariants == {"index1", "index3", "part000", "part001", "part003"}

\* the routes of script v that read likedBy / viewedBy before they update
CheckedRoutes(v) ==
    CASE v = "index3" -> {"like", "view"}
      [] v \in {"part000", "part003"} -> {"like"}
      [] OTHER -> {}

\* the routes of script v that only update
PlainRoutes(v) ==
    CASE v = "index1" -> {"view"}
      [] v \in {"part000", "part003"} -> {"view"}
      [] v = "part001" -> {"like", "view"}
      [] OTHER -> {}

\* the counter and the id list a route works on
CounterOf(route) == IF route = "like" THEN "likes" ELSE "views"
ListOf(route) == IF route = "like" THEN "likedBy" ELSE "viewedBy"

\* the device / user ids of the requests; "" stands for a body without one
Devices == {"dev1", "dev2"}

\* the most requests that arrive
MaxReqs == 3

\* an update that sets the counter to 1
SetToOne(doc, field) == [doc EXCEPT ![field] = 1]

\* FieldValue.increment(1), applied by the store
Increment(doc, field) == [doc EXCEPT ![field] = @ + 1]

\* FieldValue.arrayUnion(id), applied by the store
ArrayUnion(doc, field, id) == [doc EXCEPT ![field] = @ \cup {id}]

\* a membership test that finds nothing
IncludesNothing(list, id) == FALSE

\* likedBy.includes(deviceId)
Includes(list, id) == id \in list

\* request q leaves with the answer status / success
Answer(q, status, success) ==
    /\ reqs' = reqs (-) SetToBag({q})
    /\ resp' = resp (+) SetToBag({[route |-> q.route, id |-> q.id, dev |-> q.dev,
                                   status |-> status, success |-> success]})

\* a request reaches its handler; index3 answers 400 when the body has no deviceId
ReqArrive ==
    /\ BagCardinality(reqs) + BagCardinality(resp) < MaxReqs
    /\ \E route \in CheckedRoutes(variant) \cup PlainRoutes(variant), id \in Ids,
          dev \in Devices \cup {""} :
          LET checked == route \in CheckedRoutes(variant)
              q == [route |-> route, id |-> id, dev |-> dev,
                    pc |-> IF checked THEN "get" ELSE "update"]
          IN /\ ~checked => dev = ""
             /\ IF variant = "index3" /\ dev = ""
                THEN /\ resp' = resp (+) SetToBag({[route |-> route, id |-> id, dev |-> dev,
                                                    status |-> 400, success |-> FALSE]})
                     /\ reqs' = reqs
                ELSE reqs' = reqs (+) SetToBag({q}) /\ resp' = resp
    /\ UNCHANGED <<variant, news, now, runs, log, jobs, commits, tokens, pushed, feed, page, cache>>

\* docRef.get() of a checked route answers
ReqGet ==
    /\ \E q \in BagToSet(reqs) :
          /\ q.pc = "get"
          /\ IF q.id \notin DOMAIN news THEN Answer(q, 404, FALSE)
             ELSE IF Includes(news[q.id][ListOf(q.route)], q.dev)
                  THEN Answer(q, 200, variant = "part000")
                  ELSE /\ reqs' = (reqs (-) SetToBag({q}))
                                      (+) SetToBag({[q EXCEPT !.pc = "update"]})
                       /\ resp' = resp
    /\ UNCHANGED <<variant, news, now, runs, log, jobs, commits, tokens, pushed, feed, page, cache>>

\* an update that the store always accepts
UpdateAccepted(store, q, checked) == FALSE

\* docRef.update(...) throws for a document that does not exist and for
\* arrayUnion(undefined)
UpdateThrows(store, q, checked) == q.id \notin DOMAIN store \/ (checked /\ q.dev = "")

\* docRef.update(...) is applied by the store and the route answers; the update of
\* a document that does not exist, or with an undefined array element, throws
ReqUpdate ==
    /\ \E q \in BagToSet(reqs) :
          /\ q.pc = "update"
          /\ LET checked == q.route \in CheckedRoutes(variant) IN
             IF UpdateThrows(news, q, checked)
             THEN Answer(q, 500, FALSE) /\ news' = news
             ELSE /\ Answer(q, 200, TRUE)
                  /\ news' = [news EXCEPT ![q.id] =
                         IF checked
                         THEN ArrayUnion(Increment(@, CounterOf(q.route)), ListOf(q.route), q.dev)
                         ELSE Increment(@, CounterOf(q.route))]
    /\ UNCHANGED <<variant, now, runs, log, jobs, commits, tokens, pushed, feed, page, cache>>

\* an awaited store call of a route throws: the catch answers 500
ReqFail ==
    /\ \E q \in BagToSet(reqs) : Answer(q, 500, FALSE)
    /\ UNCHANGED <<variant, news, now, runs, log, jobs, commits, tokens, pushed, feed, page, cache>>

\* the store when the requests start: fetchNews has stored all but one of the
\* documents the store can hold
InitRoutes(vs) ==
    /\ variant \in vs
    /\ feed = {}
    /\ news = [d \in Ids \ {MaxDocs} |->
                  NewDoc(variant, 1, d, SummaryOf(variant, d), CategoryOf(variant, d), 0)]
    /\ now = Hour
    /\ runs = [r \in RunIds |-> IdleRun]
    /\ log = [r \in RunIds |-> FreshLog]
    /\ reqs = EmptyBag
    /\ resp = EmptyBag
    /\ jobs = IdleJob
    /\ commits = 0
    /\ tokens = <<>>
    /\ pushed = EmptyBag
    /\ page = NoPage
    /\ cache = NoCache

\* the scripts with a route that only updates, and those with a route that reads first
PlainVariants == {v \in RouteVariants : PlainRoutes(v) # {}}
CheckedVariants == {v \in RouteVariants : CheckedRoutes(v) # {}}

InitReq == InitRoutes(PlainVariants)

InitReqSeq == InitRoutes(CheckedVariants)

\* the requests are handled as they come: a request can arrive while others wait
\* for the store
NextReq == ReqArrive \/ ReqGet \/ ReqUpdate \/ ReqFail

SpecReq == InitReq /\ [][NextReq]_vars

\* the same routes when a request arrives only after the one before has been answered
NextReqSeq == (ReqArrive /\ reqs = EmptyBag) \/ ReqGet \/ ReqUpdate \/ ReqFail

SpecReqSeq == InitReqSeq /\ [][NextReqSeq]_vars

\* the scripts with a checked route when requests arrive while others wait
SpecReqRace == InitReqSeq /\ [][NextReq]_vars

(* --------------------------- deleteOldNews ---------------------------- *)

\* the scripts with a deleteOldNews job
DeleteVariants == {"index1", "index2", "index4", "part000", "part004a", "part004b"}

\* the scripts whose deleteOldNews has a try/catch
TryCatchVariants == {"index1", "part000", "part004a", "part004b"}

\* the scripts whose deleteOldNews returns when the snapshot is empty
EmptyCheckVariants == {"index1", "part000", "part004a"}

Day == 24 * Hour

\* the days of sevenDaysAgo
SevenDays == 7

\* the last day of the model's clock
MaxDays == 9

\* a query that also takes the documents of the cutoff itself
NotAfter(ts, cutoff) == ts <= cutoff

\* a query that takes the documents older than 8 days
BeforeTheDayBefore(ts, cutoff) == ts < cutoff - Day

\* .where("timestamp", "<", sevenDaysAgo)
Before(ts, cutoff) == ts < cutoff

\* a day passes
DayPass ==
    /\ now + Day <= MaxDays * Day
    /\ now' = now + Day
    /\ UNCHANGED <<variant, news, runs, log, reqs, resp, jobs, commits, tokens, pushed, feed, page, cache>>

\* the most commits of the model
MaxCommits == 2

\* cron calls deleteOldNews: it computes sevenDaysAgo and sends the query
CronCall ==
    /\ jobs.pc = "idle"
    /\ jobs' = [IdleJob EXCEPT !.pc = "query", !.started = now,
                                !.sevenDaysAgo = now - SevenDays * Day]
    /\ UNCHANGED <<variant, news, now, runs, log, reqs, resp, commits, tokens, pushed, feed, page, cache>>

\* the calls of cron while fewer than MaxCommits batches were committed
DeleteStart == commits < MaxCommits /\ CronCall

\* the query answers: the job returns on an empty snapshot where the script tests
\* it, and fills the batch otherwise
DeleteQuery ==
    /\ jobs.pc = "query"
    /\ LET snapshot == {d \in DOMAIN news : Before(news[d].timestamp, jobs.sevenDaysAgo)}
       IN jobs' = IF snapshot = {} /\ variant \in EmptyCheckVariants THEN IdleJob
                  ELSE [jobs EXCEPT !.pc = "commit", !.batch = snapshot]
    /\ UNCHANGED <<variant, news, now, runs, log, reqs, resp, commits, tokens, pushed, feed, page, cache>>

\* batch.commit() is applied: the documents of the batch are gone; the counter of
\* commits stops at MaxCommits
DeleteCommit ==
    /\ jobs.pc = "commit"
    /\ news' = [d \in DOMAIN news \ jobs.batch |-> news[d]]
    /\ commits' = IF commits < MaxCommits THEN commits + 1 ELSE commits
    /\ jobs' = IdleJob
    /\ UNCHANGED <<variant, now, runs, log, reqs, resp, tokens, pushed, feed, page, cache>>

\* the query or the commit throws and the catch of deleteOldNews logs it
DeleteThrow ==
    /\ jobs.pc # "idle" /\ variant \in TryCatchVariants
    /\ jobs' = [IdleJob EXCEPT !.caught = TRUE]
    /\ UNCHANGED <<variant, news, now, runs, log, reqs, resp, commits, tokens, pushed, feed, page, cache>>

\* the ages the documents have when the clock starts: 7 days, 6 days, 5 days
StartDays == {0, 1, 2}

InitDel ==
    /\ variant \in DeleteVariants
    /\ feed = {}
    /\ \E days \in [Ids \ {MaxDocs} -> StartDays] :
          news = [d \in Ids \ {MaxDocs} |->
                     NewDoc(variant, 1, d, SummaryOf(variant, d), CategoryOf(variant, d),
                            days[d] * Day)]
    /\ now = SevenDays * Day
    /\ runs = [r \in RunIds |-> IdleRun]
    /\ log = [r \in RunIds |-> FreshLog]
    /\ reqs = EmptyBag
    /\ resp = EmptyBag
    /\ jobs = IdleJob
    /\ commits = 0
    /\ tokens = IF variant = "part000" THEN PushTokens ELSE <<>>
    /\ pushed = EmptyBag
    /\ page = NoPage
    /\ cache = NoCache

NextDel == DayPass \/ DeleteStart \/ DeleteQuery \/ DeleteCommit \/ DeleteThrow

SpecDel == InitDel /\ [][NextDel]_vars

\* deleteOldNews under the schedule "0 3 * * *" with a store that answers: cron
\* calls it again and again, each query and each commit is answered, and days pass
\* up to the last day of the clock
NextDelLive == DayPass \/ CronCall \/ DeleteQuery \/ DeleteCommit

SpecDelLive ==
    /\ InitDel /\ [][NextDelLive]_vars
    /\ WF_vars(DayPass) /\ WF_vars(CronCall) /\ WF_vars(DeleteQuery) /\ WF_vars(DeleteCommit)

(* ------------------- cleanExistingSummaries (part_004) -------------------- *)

\* a sentence of n words
Sentence(n) ==
    [i \in 1..(2 * n) |-> IF i = 2 * n THEN "." ELSE IF i % 2 = 1 THEN "a" ELSE " "]

\* the pieces the stored summaries are made of: sentences whose word counts add up
\* to values on both sides of minWords and maxWords, and the things the cleaner
\* looks for
TextParts ==
    <<Sentence(30), Sentence(50), Sentence(61), Sentence(80), Sentence(111),
      <<"U","p"," ","2",".","5","%","!">>,
      <<"B","i","g"," ","[","a","d","\n","h","e","r","e","]"," ","w","i","n",".">>,
      P_http \o <<"a",".","b">>,
      D_none,
      P_dash \o <<"x",".">>>>

\* the number of pieces of a stored summary
MaxParts == 2

TextOf(ix) == JoinWords([k \in 1..Len(ix) |-> TextParts[ix[k]]])

\* the summaries the documents of the collection have when the script is loaded:
\* the scripts that wrote them stored descriptions of the feeds as they came
StoredTexts == {TextOf(ix) : ix \in UNION {[1..n -> DOMAIN TextParts] : n \in 0..MaxParts}}

\* the documents cleanExistingSummaries finds
CleanIds == {1}

\* the script is loaded and calls cleanExistingSummaries(): db.collection("news").get()
\* is sent
CleanStart ==
    /\ variant = "part004a" /\ jobs.pc = "idle"
    /\ commits < MaxCommits
    /\ jobs' = [IdleJob EXCEPT !.pc = "cleanget"]
    /\ UNCHANGED <<variant, news, now, runs, log, reqs, resp, commits, tokens, pushed, feed, page, cache>>

\* the snapshot answers: the forEach puts an update of summary in the batch for each
\* document whose cleaned summary is not empty and differs from the stored one; with
\* count 0 the function returns
CleanGet ==
    /\ jobs.pc = "cleanget"
    /\ LET cleaned == [d \in DOMAIN news |->
                          cleanAndTrimSummary(news[d].summary, MinWords, MaxWords)]
           batch == {<<d, cleaned[d]>> : d \in {e \in DOMAIN news :
                        cleaned[e] # <<>> /\ cleaned[e] # news[e].summary}}
       IN jobs' = [IdleJob EXCEPT !.pc = IF batch = {} THEN "idle" ELSE "cleancommit",
                                  !.batch = batch, !.cleaned = cleaned]
    /\ UNCHANGED <<variant, news, now, runs, log, reqs, resp, commits, tokens, pushed, feed, page, cache>>

\* batch.commit() is applied: each update of the batch sets the summary of its document
CleanCommit ==
    /\ jobs.pc = "cleancommit"
    /\ news' = [d \in DOMAIN news |->
                   IF \E u \in jobs.batch : u[1] = d
                   THEN [news[d] EXCEPT !.summary =
                            (CHOOSE u \in jobs.batch : u[1] = d)[2]]
                   ELSE news[d]]
    /\ commits' = commits + 1
    /\ jobs' = [jobs EXCEPT !.pc = "idle"]
    /\ UNCHANGED <<variant, now, runs, log, reqs, resp, tokens, pushed, feed, page, cache>>

\* get() or commit() rejects: cleanExistingSummaries has no try, the promise it
\* returned rejects and nothing is written
CleanThrow ==
    /\ jobs.pc \in {"cleanget", "cleancommit"}
    /\ jobs' = IdleJob
    /\ UNCHANGED <<variant, news, now, runs, log, reqs, resp, commits, tokens, pushed, feed, page, cache>>

InitClean ==
    /\ variant = "part004a"
    /\ feed = {}
    /\ \E text \in [CleanIds -> StoredTexts] :
          news = [d \in CleanIds |->
                     [NewDoc(variant, 1, d, text[d], CategoryOf(variant, d), 0)
                         EXCEPT !.likes = d]]
    /\ now = 0
    /\ runs = [r \in RunIds |-> IdleRun]
    /\ log = [r \in RunIds |-> FreshLog]
    /\ reqs = EmptyBag
    /\ resp = EmptyBag
    /\ jobs = IdleJob
    /\ commits = 0
    /\ tokens = <<>>
    /\ pushed = EmptyBag
    /\ page = NoPage
    /\ cache = NoCache

NextClean == CleanStart \/ CleanGet \/ CleanCommit \/ CleanThrow

SpecClean == InitClean /\ [][NextClean]_vars

(* ------------- the like and view routes beside deleteOldNews ---------- *)

\* the day of the requests; the first document is older than seven days by then
RouteDay == 8

\* the store when the requests start: an old document and one of today
InitReqDel ==
    /\ variant \in RouteVariants
    /\ feed = {}
    /\ news = [d \in Ids \ {MaxDocs} |->
                  NewDoc(variant, 1, d, SummaryOf(variant, d), CategoryOf(variant, d),
                         IF d = 1 THEN 0 ELSE RouteDay * Day)]
    /\ now = RouteDay * Day
    /\ runs = [r \in RunIds |-> IdleRun]
    /\ log = [r \in RunIds |-> FreshLog]
    /\ reqs = EmptyBag
    /\ resp = EmptyBag
    /\ jobs = IdleJob
    /\ commits = 0
    /\ tokens = <<>>
    /\ pushed = EmptyBag
    /\ page = NoPage
    /\ cache = NoCache

\* cron calls deleteOldNews in the scripts that have it
JobStart == variant \in DeleteVariants /\ DeleteStart

\* the most requests that arrive beside the job
MaxBeside == 2

ArriveBeside == ReqArrive /\ BagCardinality(reqs) + BagCardinality(resp) < MaxBeside

\* the requests and the job interleave freely
NextReqDel ==
    \/ ArriveBeside \/ ReqGet \/ ReqUpdate \/ ReqFail
    \/ JobStart \/ DeleteQuery \/ DeleteCommit \/ DeleteThrow

SpecReqDel == InitReqDel /\ [][NextReqDel]_vars

(* ------------------- the registration of a device --------------------- *)

\* the scripts with a registration route: POST /register-device of src/index.js
\* 584-600 (collection devices) and POST /register-token of part_000 (fcmTokens)
RegisterVariants == {"index3", "part000"}

\* the bodies of the requests: "" and {} stand for an absent field
TokenInputs == {"", "tok1", "tok2"}
ListInputs == {{}, {"World"}}
TagInputs(v) == IF v = "index3" THEN {"", "ios"} ELSE {"", "en"}

\* a document that keeps none of the values of the request
RegDocEmpty(v, q, t) ==
    IF v = "index3"
    THEN [token |-> q.token, categories |-> {}, platform |-> "web", createdAt |-> t]
    ELSE [token |-> q.token, language |-> "", interests |-> {}, createdAt |-> t]

\* the document .set() receives; createdAt is the server timestamp
RegDoc(v, q, t) ==
    IF v = "index3"
    THEN [token |-> q.token, categories |-> q.list,
          platform |-> IF q.tag = "" THEN "web" ELSE q.tag, createdAt |-> t]
    ELSE [token |-> q.token, language |-> q.tag, interests |-> q.list, createdAt |-> t]

\* the answer to a registration request
RegAnswer(q, status) ==
    [route |-> "register", token |-> q.token, list |-> q.list, tag |-> q.tag,
     status |-> status]

\* a registration reaches its handler: src/index.js answers 400 without a token;
\* in part_000 doc(undefined) and a set with an undefined language throw inside
\* the try, and the catch answers 500
RegArrive ==
    /\ BagCardinality(reqs) + BagCardinality(resp) < MaxReqs
    /\ \E token \in TokenInputs, list \in ListInputs, tag \in TagInputs(variant) :
          LET q == [route |-> "register", token |-> token, list |-> list, tag |-> tag,
                    pc |-> "set"]
          IN IF variant = "index3" /\ token = ""
             THEN resp' = resp (+) SetToBag({RegAnswer(q, 400)}) /\ reqs' = reqs
             ELSE IF variant = "part000" /\ (token = "" \/ tag = "")
             THEN resp' = resp (+) SetToBag({RegAnswer(q, 500)}) /\ reqs' = reqs
             ELSE reqs' = reqs (+) SetToBag({q}) /\ resp' = resp
    /\ UNCHANGED <<variant, news, now, runs, log, jobs, commits, tokens, pushed, feed, page, cache>>

\* .doc(token).set({...}) is applied by the store: the document of the token is
\* created or replaced as a whole
RegSet ==
    /\ \E q \in BagToSet(reqs) :
          /\ q.route = "register"
          /\ tokens' = [t \in DOMAIN tokens \cup {q.token} |->
                           IF t = q.token THEN RegDoc(variant, q, now) ELSE tokens[t]]
          /\ reqs' = reqs (-) SetToBag({q})
          /\ resp' = resp (+) SetToBag({RegAnswer(q, 200)})
    /\ UNCHANGED <<variant, news, now, runs, log, jobs, commits, pushed, feed, page, cache>>

\* the set is rejected: the catch answers 500
RegFail ==
    /\ \E q \in BagToSet(reqs) :
          /\ q.route = "register"
          /\ reqs' = reqs (-) SetToBag({q})
          /\ resp' = resp (+) SetToBag({RegAnswer(q, 500)})
    /\ UNCHANGED <<variant, news, now, runs, log, jobs, commits, tokens, pushed, feed, page, cache>>

\* the collection is empty when the requests start
InitReg ==
    /\ variant \in RegisterVariants
    /\ feed = {}
    /\ news = <<>>
    /\ now = 0
    /\ runs = [r \in RunIds |-> IdleRun]
    /\ log = [r \in RunIds |-> FreshLog]
    /\ reqs = EmptyBag
    /\ resp = EmptyBag
    /\ jobs = IdleJob
    /\ commits = 0
    /\ tokens = <<>>
    /\ pushed = EmptyBag
    /\ page = NoPage
    /\ cache = NoCache

\* requests arrive while others wait for the store, and time passes
NextReg == RegArrive \/ RegSet \/ RegFail \/ Pass

SpecReg == InitReg /\ [][NextReg]_vars

(* ----------------------- the store a reader finds --------------------- *)

\* The collection is shared by the deployed scripts and filled over days, so a read
\* request finds documents of several ages, categories and languages, with the
\* counters the like and view routes have left. The ages are those for which
\* Math.pow(ageHours + 2, e) of the script's trending score is a fraction:
\* whole hours, j * j - 2 hours (e = 1.5), and (k / 5)^5 - 2 hours (e = 1.4).
LinearAges == <<1 * Hour, 3 * Hour, 23 * Hour, 24 * Hour, 25 * Hour>>
SquareAges == <<2 * Hour, 7 * Hour, 14 * Hour, 23 * Hour, 34 * Hour>>
FifthAges == <<1757952, 12161664, 30548736, 60824448, 108000000>>

AgesOf(v) ==
    CASE v \in {"index2", "index4"} -> SquareAges
      [] v = "part004b" -> FifthAges
      [] OTHER -> LinearAges

\* the clock of a read request
ReadNow == 40 * Hour

\* the articles the documents were made from
ReadItems == <<1, 3, 4, 7>>

\* the categories of the documents
ReadCategories == <<"India", "World">>

\* document i of the collection of shape k
ReadDoc(v, i, k) ==
    LET item == ReadItems[1 + (i % 4)]
        ages == AgesOf(v)
        doc == NewDoc(v, IF i % 3 = 0 THEN Len(Segments(v)) ELSE 1, item,
                      SummaryOf(v, item), ReadCategories[1 + (i % 2)],
                      ReadNow - ages[1 + ((i * k) % Len(ages))])
    IN [doc EXCEPT !.likes = (i * k) % 4, !.views = (i + k) % 3,
                   !.micros = 500 * ((i + k) % 2)]

\* the ways the ages and counters are spread over the documents
Shapes == {1, 2, 3}

\* the collections of the given sizes
Stores(v, sizes) == {[i \in 1..n |-> ReadDoc(v, i, k)] : n \in sizes, k \in Shapes}

(* ------------------------------ GET /news ----------------------------- *)

\* the scripts whose GET /news queries the store (part_002 answers from its cache)
NewsVariants == {"index1", "index2", "index3", "index4", "part000", "part001",
                 "part003", "part004a", "part004b"}

\* the scripts whose GET /news filters by language
LanguageVariants == {"index1", "part000"}

\* the scripts whose GET /news reads req.query.limit
LimitVariants == NewsVariants \ {"part001"}

\* the scripts whose GET /news reads req.query.lastTimestamp
CursorVariants == NewsVariants \ {"part000"}

\* the scripts whose GET /news answers { articles, lastTimestamp }
PagedVariants == NewsVariants \ {"part000", "part001"}

\* the scripts whose read handlers have no try/catch
NoTryVariants == {"index2"}

DigitOf(c) == (CHOOSE k \in 1..Len(DigitChars) : DigitChars[k] = c) - 1

RECURSIVE LeadingDigits(_, _)
LeadingDigits(s, acc) ==
    IF s = <<>> \/ ~IsDigit(Head(s)) THEN acc
    ELSE LeadingDigits(Tail(s), 10 * acc + DigitOf(Head(s)))

\* parseInt(s): <<n>> for a number and <<>> for NaN; an absent parameter is the
\* empty text (parseInt reads undefined as the text "undefined": NaN as well)
parseInt(s) ==
    LET t == TrimLeft(s)
        signed == t # <<>> /\ Head(t) \in {"-", "+"}
        u == IF signed THEN Tail(t) ELSE t
    IN IF u = <<>> \/ ~IsDigit(Head(u)) THEN <<>>
       ELSE <<(IF signed /\ Head(t) = "-" THEN 0 - 1 ELSE 1) * LeadingDigits(u, 0)>>

\* x || d for a number x
OrElse(x, d) == IF x = <<>> \/ x[1] = 0 THEN d ELSE x[1]

\* the page size when the limit parameter gives none
DefaultLimit == 10

\* const limit = parseInt(req.query.limit) || 10, and const limit = 10 in part_001
LimitOf(v, text) ==
    IF v \in LimitVariants THEN OrElse(parseInt(text), DefaultLimit) ELSE DefaultLimit

\* A lastTimestamp parameter: none, an ISO date of ms milliseconds, the decimal
\* digits of ms, or a text that is neither. JSON null is the cursor of an empty page.
NoCursor == [kind |-> "none", ms |-> 0]
Null == [kind |-> "null", ms |-> 0]
IsoCursor(ms) == [kind |-> "iso", ms |-> ms]
NumCursor(ms) == [kind |-> "num", ms |-> ms]
BadCursor == [kind |-> "text", ms |-> 0]

\* timestamp.toDate().toISOString(): the date of the timestamp in milliseconds
toISOString(doc) == IsoCursor(doc.timestamp)

\* the Date the script makes of the parameter, <<ms>>, or <<>> for an Invalid Date:
\* new Date(lastTimestamp), and new Date(Number(lastTimestamp)) in part_001
DateOf(v, c) ==
    IF v = "part001" THEN (IF c.kind = "num" THEN <<c.ms>> ELSE <<>>)
    ELSE (IF c.kind = "iso" THEN <<c.ms>> ELSE <<>>)

\* a handler that never filters by category
NoCategoryFilter(v, category) == FALSE

\* if (category && category !== "All"), and in part_001 also !== "Trending"
HasCategoryFilter(v, category) ==
    /\ category # "" /\ category # "All"
    /\ v = "part001" => category # "Trending"

\* req.query.language || "en"
LanguageAsked(language) == IF language = "" THEN "en" ELSE language

\* the documents the query of request q matches
Matching(v, q, store) ==
    {d \in DOMAIN store :
        /\ v \in LanguageVariants => store[d].language = LanguageAsked(q.language)
        /\ HasCategoryFilter(v, q.category) => store[d].category = q.category
        /\ q.start # <<>> => store[d].timestamp < q.start[1]}

\* .orderBy("timestamp", "desc").limit(limit).startAfter(date).get()
NewsQuery(v, q, store) == Take(Reverse(Ascending(store, Matching(v, q, store))), q.limit)

\* the parameters of the requests
LimitInputs == {<<>>, <<"a","b","c">>, <<"0">>, <<"1">>, <<"1","2">>}
CategoryInputs == {"", "All", "World", "Trending"}
LanguageInputs == {"", "hi"}

\* the lastTimestamp parameters: none, the date of a document in the form the script
\* parses, the other form, and a text that is no date
CursorInputs(v, store) ==
    {NoCursor, BadCursor}
        \cup {IsoCursor(store[d].timestamp) : d \in DOMAIN store \cap {1, 2}}
        \cup (IF v = "part001"
              THEN {NumCursor(store[d].timestamp) : d \in DOMAIN store \cap {1}}
              ELSE {})

\* the most pages a client asks for in a row
MaxPages == 2

\* the answer to request q
PageOf(q, status, articles, cursor) ==
    [status |-> status, q |-> q, articles |-> articles, lastTimestamp |-> cursor]

\* the handler fails: the catch answers 500; without a try/catch the rejection is
\* not handled and the request is never answered
Failed(v, q) ==
    IF v \in NoTryVariants
    THEN /\ reqs' = SetToBag({[q EXCEPT !.pc = "lost"]})
         /\ page' = page
    ELSE /\ reqs' = EmptyBag
         /\ page' = PageOf(q, 500, <<>>, NoCursor)

\* the handler reads the parameters, builds the query and awaits it; startAfter
\* throws for an Invalid Date
Ask(v, q) ==
    IF q.cursor # NoCursor /\ v \in CursorVariants /\ q.start = <<>>
    THEN Failed(v, q)
    ELSE reqs' = SetToBag({q}) /\ page' = NoPage

\* the request a script makes of the parameters; n and seen are the client's: the
\* number of the page in its walk and the ids of the articles of the pages before,
\* <<>> when the walk did not start at the first page
NewsRequest(v, limit, category, language, cursor, n, seen) ==
    [route |-> "news", pc |-> "get", text |-> limit, limit |-> LimitOf(v, limit),
     category |-> category, language |-> language, cursor |-> cursor,
     start |-> IF v \in CursorVariants /\ cursor # NoCursor THEN DateOf(v, cursor) ELSE <<>>,
     n |-> n, seen |-> seen]

\* a GET /news request reaches its handler
NewsArrive ==
    /\ reqs = EmptyBag /\ page = NoPage
    /\ \E limit \in LimitInputs, category \in CategoryInputs, language \in LanguageInputs,
          cursor \in CursorInputs(variant, news) :
          /\ variant \notin LanguageVariants => language = ""
          /\ variant \notin LimitVariants => limit = <<>>
          /\ variant \notin CursorVariants => cursor = NoCursor
          /\ Ask(variant, NewsRequest(variant, limit, category, language, cursor, 1,
                                      IF cursor = NoCursor THEN <<{}>> ELSE <<>>))
    /\ UNCHANGED <<variant, news, now, runs, log, resp, jobs, commits, tokens, pushed, feed, cache>>

\* query.get() answers and the handler sends the page
NewsAnswer ==
    /\ \E q \in BagToSet(reqs) :
          /\ q.route = "news" /\ q.pc = "get"
          /\ LET articles == NewsQuery(variant, q, news)
                 newCursor == IF articles = <<>> THEN Null
                              ELSE toISOString(articles[Len(articles)].data)
             IN page' = PageOf(q, 200, articles,
                               IF variant \in PagedVariants THEN newCursor ELSE NoCursor)
          /\ reqs' = EmptyBag
    /\ UNCHANGED <<variant, news, now, runs, log, resp, jobs, commits, tokens, pushed, feed, cache>>

\* query.get() rejects
NewsFail ==
    /\ \E q \in BagToSet(reqs) : q.route = "news" /\ q.pc = "get" /\ Failed(variant, q)
    /\ UNCHANGED <<variant, news, now, runs, log, resp, jobs, commits, tokens, pushed, feed, cache>>

\* the client asks for the next page with the lastTimestamp of the page it has
NewsNext ==
    /\ reqs = EmptyBag
    /\ page.status = 200 /\ page.q.route = "news"
    /\ page.lastTimestamp.kind = "iso" /\ page.q.n < MaxPages
    /\ Ask(variant, NewsRequest(variant, page.q.text, page.q.category, page.q.language,
                              page.lastTimestamp, page.q.n + 1,
                              IF page.q.seen = <<>> THEN <<>>
                              ELSE <<page.q.seen[1] \cup {a.id : a \in Range(page.articles)}>>))
    /\ UNCHANGED <<variant, news, now, runs, log, resp, jobs, commits, tokens, pushed, feed, cache>>

\* the sizes of the collection: empty, less than a page, more than a page
NewsSizes == {0, 3, 25}

InitRead(vs, sizes) ==
    /\ variant \in vs
    /\ feed = {}
    /\ news \in Stores(variant, sizes)
    /\ now = ReadNow
    /\ runs = [r \in RunIds |-> IdleRun]
    /\ log = [r \in RunIds |-> FreshLog]
    /\ reqs = EmptyBag
    /\ resp = EmptyBag
    /\ jobs = IdleJob
    /\ commits = 0
    /\ tokens = <<>>
    /\ pushed = EmptyBag
    /\ page = NoPage
    /\ cache = NoCache

InitNews == InitRead(NewsVariants, NewsSizes)

NextNews == NewsArrive \/ NewsAnswer \/ NewsFail \/ NewsNext

SpecNews == InitNews /\ [][NextNews]_vars

(* ------------------- GET /news of the cached script ------------------- *)

Minute == 60 * 1000

\* const CACHE_DURATION = 10 * 60 * 1000; and .limit(50)
CACHE_DURATION == 10 * Minute
CacheLimit == 50

\* a test that never looks at the age of the cache
CacheFilled(c, t) == Len(c.cachedNews) > 0

\* if (cachedNews.length > 0 && now - lastFetchTime < CACHE_DURATION)
CacheValid(c, t) == Len(c.cachedNews) > 0 /\ t - c.lastFetchTime < CACHE_DURATION

\* a request of the cached script: at is the Date.now() its handler read, pc tells
\* whether the handler returned the cache or awaits the query
CacheRequest(pc, t) == [route |-> "cached", pc |-> pc, at |-> t]

\* the minutes between two moments of the clock of the cached script, the most
\* moments after the first, and the most requests that await their query together
CacheStep == 10
MaxMoments == 2
MaxPending == 1

\* time passes, whatever the runs and the requests do
MinutesPass ==
    /\ now + CacheStep * Minute <= ReadNow + MaxMoments * CacheStep * Minute
    /\ now' = now + CacheStep * Minute
    /\ UNCHANGED <<variant, news, runs, log, reqs, resp, jobs, commits, tokens, pushed, feed, page, cache>>

\* a GET /news request reaches the handler of part_002: it reads the clock and
\* either returns cachedNews or sends the query
CacheArrive ==
    /\ BagCardinality(reqs) < MaxPending
    /\ IF CacheValid(cache, now)
       THEN /\ page' = PageOf(CacheRequest("cache", now), 200, cache.cachedNews, NoCursor)
            /\ reqs' = reqs
       ELSE /\ reqs' = reqs (+) SetToBag({CacheRequest("get", now)})
            /\ page' = page
    /\ UNCHANGED <<variant, news, now, runs, log, resp, jobs, commits, tokens, pushed, feed, cache>>

\* the query answers: the handler fills the cache and sends the list
CacheAnswer ==
    /\ \E q \in BagToSet(reqs) :
          /\ q.route = "cached" /\ q.pc = "get"
          /\ \E found \in {Take(Reverse(Ascending(news, DOMAIN news)), CacheLimit)} :
                /\ cache' = [cachedNews |-> found, lastFetchTime |-> q.at, readAt |-> now]
                /\ page' = PageOf(q, 200, found, NoCursor)
          /\ reqs' = reqs (-) SetToBag({q})
    /\ UNCHANGED <<variant, news, now, runs, log, resp, jobs, commits, tokens, pushed, feed>>

\* the query rejects: the catch answers 500
CacheFail ==
    /\ \E q \in BagToSet(reqs) :
          /\ q.route = "cached" /\ q.pc = "get"
          /\ page' = PageOf(q, 500, <<>>, NoCursor)
          /\ reqs' = reqs (-) SetToBag({q})
    /\ UNCHANGED <<variant, news, now, runs, log, resp, jobs, commits, tokens, pushed, feed, cache>>

\* the collection when the requests start: empty, or more than the limit
CacheSizes == {0, 51}

\* the article of the news source of the cached script
CacheItems == {1}

InitCache ==
    /\ variant = "part002"
    /\ feed = CacheItems
    /\ news \in {[i \in 1..n |-> ReadDoc(variant, i, 1)] : n \in CacheSizes}
    /\ now = ReadNow
    /\ runs = [r \in RunIds |-> IdleRun]
    /\ log = [r \in RunIds |-> FreshLog]
    /\ reqs = EmptyBag
    /\ resp = EmptyBag
    /\ jobs = IdleJob
    /\ commits = 0
    /\ tokens = <<>>
    /\ pushed = EmptyBag
    /\ page = NoPage
    /\ cache = NoCache

\* one fetchNews call at a time runs beside the requests
NextCache ==
    \/ MinutesPass \/ CacheArrive \/ CacheAnswer \/ CacheFail
    \/ Tick(1) \/ ApiReturn(1) \/ Lookup(1) \/ Ai(1) \/ AiFail(1) \/ AiUnparsed(1)
    \/ Add(1) \/ Throw(1)

SpecCache == InitCache /\ [][NextCache]_vars

(* -------------------------- GET /news/trending ------------------------ *)

\* the scripts whose trending route computes a trendingScore
TrendVariants == {"index2", "index3", "index4", "part001", "part003", "part004b"}

\* the scripts whose candidates are the documents of the last 24 hours
DayVariants == {"index3", "part001", "part003"}

\* .limit(100) of the other scripts, and .slice(0, 20)
CandidateLimit == 100
TrendingLimit == 20

\* the hours below which a breaking article gets the boost, and the boost
BoostHours == 3
BreakingBoost == 20

\* Math.pow(x / Hour, e) for the ages of the model, as numerator over PowDen:
\* e = 1.5 on x = j * j hours is j^3, e = 1.4 on x = (k / 5)^5 hours is (k / 5)^7
PowNum(v, x) ==
    IF v = "part004b"
    THEN LET k == CHOOSE k \in 1..10 : k * k * k * k * k * (Hour \div 3125) = x
         IN k * k * k * k * k * k * k
    ELSE LET j == CHOOSE j \in 1..10 : j * j * Hour = x
         IN j * j * j

PowDen(v) == IF v = "part004b" THEN 78125 ELSE 1

Max(a, b) == IF a > b THEN a ELSE b

\* The trendingScore of a document at time t. A score is NaN, or the number
\* n * PowDen / (2 * p) + boost, where p = 1 and PowDen = Hour / 5 for the scores
\* without a power: freshnessBoost * 5 + likes * 3 + views is
\* (max(Day - age, 0) + (3 * likes + views) * Hour / 5) / (Hour / 5).
\* part_001 takes new Date(article.timestamp) of a Firestore Timestamp, which is an
\* Invalid Date: its getTime() is NaN and so is the score.
ScoreOf(v, doc, t) ==
    LET age == t - doc.timestamp IN
    CASE v = "part001" -> [nan |-> TRUE, n |-> 0, p |-> 1, boost |-> 0]
      [] v \in {"index3", "part003"} ->
            [nan |-> FALSE, n |-> Max(Day - age, 0) + (3 * doc.likes + doc.views) * (Hour \div 5),
             p |-> 1, boost |-> 0]
      [] OTHER ->
            [nan |-> FALSE, n |-> 8 * doc.likes + 3 * doc.views, p |-> PowNum(v, age + 2 * Hour),
             boost |-> IF doc.breaking /\ age < BoostHours * Hour THEN BreakingBoost ELSE 0]

\* s1 > s2 for two scores of script v; a comparison with NaN is false
Greater(v, s1, s2) ==
    /\ ~s1.nan /\ ~s2.nan
    /\ IF s1.boost = s2.boost THEN s1.n * s2.p > s2.n * s1.p
       ELSE IF s1.boost > s2.boost
       THEN \/ s2.n * PowDen(v) < 2 * (s1.boost - s2.boost) * s2.p
            \/ s1.n * PowDen(v) * s2.p + 2 * (s1.boost - s2.boost) * s1.p * s2.p
                  > s2.n * PowDen(v) * s1.p
       ELSE /\ s1.n * PowDen(v) >= 2 * (s2.boost - s1.boost) * s1.p
            /\ s1.n * PowDen(v) * s2.p
                  > s2.n * PowDen(v) * s1.p + 2 * (s2.boost - s1.boost) * s1.p * s2.p

\* the article of a scored document
Article(t) == [id |-> t.id, data |-> t.data, trendingScore |-> t.trendingScore]

\* a sort that leaves the list as it is
Unsorted(v, scored) ==
    [r \in 1..Cardinality(scored) |-> Article(CHOOSE t \in scored : t.k = r)]

\* news.sort((a, b) => b.trendingScore - a.trendingScore) on the scored documents,
\* each with its place k in the list: a stable sort; a comparator that returns NaN
\* counts as 0, so NaN scores keep their places
SortByScore(v, scored) ==
    CHOOSE sorted \in
        {[r \in 1..Cardinality(scored) |-> Article((CHOOSE p \in ranked : p[1] = r - 1)[2])] :
            ranked \in {{<<Cardinality({u \in scored :
                              \/ Greater(v, u.trendingScore, t.trendingScore)
                              \/ /\ ~Greater(v, t.trendingScore, u.trendingScore)
                                 /\ u.k < t.k}), t>> : t \in scored}}} : TRUE

\* the documents the query of the trending route returns: those later than
\* yesterday, in ascending timestamp order, or the 100 most recent
TrendQuery(v, q, store) ==
    IF v \in DayVariants
    THEN Take(Ascending(store, {d \in DOMAIN store : After(store[d], q.yesterday)}),
              Cardinality(DOMAIN store))
    ELSE Take(Reverse(Ascending(store, DOMAIN store)), CandidateLimit)

\* a GET /news/trending request reaches its handler, which sends the query
TrendArrive ==
    /\ reqs = EmptyBag /\ page = NoPage
    /\ reqs' = SetToBag({[route |-> "trending", pc |-> "get", yesterday |-> now - Day]})
    /\ UNCHANGED <<variant, news, now, runs, log, resp, jobs, commits, tokens, pushed, feed, page, cache>>

\* the query answers: the handler scores, sorts and sends the first 20
TrendAnswer ==
    /\ \E q \in BagToSet(reqs) :
          /\ q.route = "trending" /\ q.pc = "get"
          /\ \E found \in {TrendQuery(variant, q, news)} :
                \E scored \in {{[k |-> k, id |-> found[k].id, data |-> found[k].data,
                                  trendingScore |-> ScoreOf(variant, found[k].data, now)] :
                                    k \in 1..Len(found)}} :
                    page' = PageOf(q, 200, Take(SortByScore(variant, scored), TrendingLimit),
                                   NoCursor)
          /\ reqs' = EmptyBag
    /\ UNCHANGED <<variant, news, now, runs, log, resp, jobs, commits, tokens, pushed, feed, cache>>

\* the query rejects
TrendFail ==
    /\ \E q \in BagToSet(reqs) : q.route = "trending" /\ q.pc = "get" /\ Failed(variant, q)
    /\ UNCHANGED <<variant, news, now, runs, log, resp, jobs, commits, tokens, pushed, feed, cache>>

\* the sizes of the collection: up to more than the 100 candidates
TrendSizes == {0, 3, 25, 101}

InitTrend == InitRead(TrendVariants, TrendSizes)

NextTrend == TrendArrive \/ TrendAnswer \/ TrendFail

SpecTrend == InitTrend /\ [][NextTrend]_vars

(* -------------------------- claims about GET /news -------------------- *)

\* the page size the parameter asks for: its number, and 10 when it is absent, not
\* a number or 0
AskedLimit(text) ==
    CASE text = <<"1">> -> 1
      [] text = <<"1","2">> -> 12
      [] OTHER -> 10

\* document a is not older than document b
NotOlder(a, b) ==
    \/ a.timestamp > b.timestamp
    \/ a.timestamp = b.timestamp /\ a.micros >= b.micros

\* the articles of the page are documents of the store in descending timestamp order
Descends(articles) ==
    /\ \A k \in 1..Len(articles) :
          articles[k].id \in DOMAIN news /\ articles[k].data = news[articles[k].id]
    /\ \A k \in 1..(Len(articles) - 1) : NotOlder(articles[k].data, articles[k + 1].data)

\* at most limit articles, of the category asked for unless it is absent or one of
\* the values of all, of the language asked for in the scripts of langs
Filtered(articles, limit, q, all, langs) ==
    /\ Len(articles) <= limit
    /\ q.category \notin all => \A k \in 1..Len(articles) : articles[k].data.category = q.category
    /\ variant \in langs =>
          \A k \in 1..Len(articles) :
              articles[k].data.language = (IF q.language = "" THEN "en" ELSE q.language)

\* every article is strictly older than the date of the cursor
OlderThan(articles, cursor) ==
    \A k \in 1..Len(articles) : articles[k].data.timestamp < cursor.ms

\* C8 as stated, for every script with a GET /news that queries the store: at most
\* limit articles (10 by default), filtered, descending, older than the cursor, and
\* lastTimestamp is the timestamp of the last article, or null for an empty page
C8_PageAsStated ==
    page.status = 200 /\ page.q.route = "news" =>
        /\ Filtered(page.articles, AskedLimit(page.q.text), page.q, {"", "All"},
                    {"index1", "part000"})
        /\ Descends(page.articles)
        /\ page.q.cursor # NoCursor => OlderThan(page.articles, page.q.cursor)
        /\ IF page.articles = <<>> THEN page.lastTimestamp = Null
           ELSE LET last == page.articles[Len(page.articles)].data
                IN page.lastTimestamp = IsoCursor(last.timestamp) /\ last.micros = 0

\* C8 amended: in the seven scripts that answer { articles, lastTimestamp } the page
\* is as stated, with lastTimestamp the timestamp of the last article cut to whole
\* milliseconds; part_000 filters and limits the same way but takes no cursor and
\* returns none; part_001 always returns at most 10 articles, treats the category
\* "Trending" like "All", takes the cursor as a number of milliseconds and returns
\* the bare list
C8_PageOfNews ==
    page.status = 200 /\ page.q.route = "news" =>
        /\ Descends(page.articles)
        /\ CASE variant = "part000" ->
                  /\ Filtered(page.articles, AskedLimit(page.q.text), page.q, {"", "All"},
                              {"part000"})
                  /\ page.lastTimestamp = NoCursor
             [] variant = "part001" ->
                  /\ Filtered(page.articles, 10, page.q, {"", "All", "Trending"}, {})
                  /\ page.q.cursor # NoCursor => OlderThan(page.articles, page.q.cursor)
                  /\ page.q.cursor # NoCursor => page.q.cursor.kind = "num"
                  /\ page.lastTimestamp = NoCursor
             [] OTHER ->
                  /\ Filtered(page.articles, AskedLimit(page.q.text), page.q, {"", "All"},
                              {"index1"})
                  /\ page.q.cursor # NoCursor => OlderThan(page.articles, page.q.cursor)
                  /\ page.q.cursor # NoCursor => page.q.cursor.kind = "iso"
                  /\ page.lastTimestamp =
                        IF page.articles = <<>> THEN Null
                        ELSE IsoCursor(page.articles[Len(page.articles)].data.timestamp)

\* a second page, asked for with the lastTimestamp of the first and a category, is
\* full, its last article has a timestamp with microseconds, and the store holds
\* older documents of the category
C8_Witness ==
    /\ page.status = 200 /\ page.q.route = "news" /\ variant = "part003"
    /\ page.q.n = 2 /\ page.q.category = "World"
    /\ Len(page.articles) = page.q.limit
    /\ page.articles[Len(page.articles)].data.micros > 0
    /\ \E d \in DOMAIN news :
          /\ news[d].category = "World"
          /\ news[d].timestamp < page.articles[Len(page.articles)].data.timestamp

\* a page of ten articles answers a request without limit
C8_WitnessDefault ==
    /\ page.status = 200 /\ page.q.route = "news" /\ variant \in {"index1", "part004a"}
    /\ page.q.text = <<>> /\ Len(page.articles) = 10
    /\ Cardinality(DOMAIN news) > 10

(* --------------------- claims about GET /news/trending ---------------- *)

\* the documents among which the route chooses: those of the last 24 hours, or
\* those with fewer than 100 documents ahead of them in descending timestamp order
Candidates ==
    IF variant \in {"index3", "part001", "part003"}
    THEN {d \in DOMAIN news :
             \/ now - news[d].timestamp < 24 * Hour
             \/ now - news[d].timestamp = 24 * Hour /\ news[d].micros > 0}
    ELSE {d \in DOMAIN news :
             Cardinality({e \in DOMAIN news :
                             \/ ~NotOlder(news[d], news[e])
                             \/ NotOlder(news[e], news[d]) /\ NotOlder(news[d], news[e]) /\ e > d})
                 < 100}

\* score a is a number not below the number b
AtLeast(a, b) == ~a.nan /\ ~b.nan /\ ~Greater(variant, b, a)

\* what C9 states of an answer of the trending route
Trending ==
    /\ Len(page.articles) <= 20
    /\ \A k \in 1..Len(page.articles) :
          /\ page.articles[k].id \in Candidates
          /\ page.articles[k].data = news[page.articles[k].id]
    /\ \A k \in 1..(Len(page.articles) - 1) :
          AtLeast(page.articles[k].trendingScore, page.articles[k + 1].trendingScore)
    /\ \A d \in Candidates \ {page.articles[k].id : k \in 1..Len(page.articles)} :
          \A k \in 1..Len(page.articles) :
              ~Greater(variant, ScoreOf(variant, news[d], now), page.articles[k].trendingScore)

\* C9 as stated: in every scoring script the answer has at most 20 candidates in
\* non-increasing order of trendingScore, no candidate left out scores higher than
\* a returned one, and the route writes nothing
C9_TrendingAsStated ==
    /\ [](page.status = 200 /\ page.q.route = "trending" => Trending)
    /\ [][news' = news]_vars

\* the same in the scoring scripts other than part_001
C9_TrendingElsewhere ==
    /\ [](page.status = 200 /\ page.q.route = "trending" /\ variant # "part001" => Trending)
    /\ [][news' = news]_vars

\* 20 of more than 100 documents are returned, the first with a breaking boost and
\* the last with a higher score than a candidate left out
C9_Witness ==
    /\ page.status = 200 /\ page.q.route = "trending" /\ variant = "index4"
    /\ Cardinality(DOMAIN news) > 100 /\ Len(page.articles) = 20
    /\ page.articles[1].trendingScore.boost = 20
    /\ \E d \in Candidates :
          Greater(variant, page.articles[20].trendingScore, ScoreOf(variant, news[d], now))

\* part_001 answers with two articles of which the second has more likes, no fewer
\* views and no earlier timestamp than the first
C9_WitnessNaN ==
    /\ page.status = 200 /\ page.q.route = "trending" /\ variant = "part001"
    /\ Len(page.articles) >= 2
    /\ page.articles[1].trendingScore.nan
    /\ page.articles[2].data.likes > page.articles[1].data.likes
    /\ page.articles[2].data.views >= page.articles[1].data.views
    /\ page.articles[2].data.timestamp >= page.articles[1].data.timestamp

(* ------------------------ claims about the push ----------------------- *)

\* the calls of sendBreakingPush for document d: those in flight and those that
\* have sent their notification
PushCalls(d) ==
    Cardinality({r \in RunIds : runs[r].pc \in {"pushq", "pushsend"} /\ runs[r].ref = d})
        + Cardinality({n \in BagToSet(pushed) : n.id = d})

\* C11: in part_000 sendBreakingPush is called only by the step that has just added
\* the document of a breaking article (never after a skip), at most once for a
\* stored document, and a notification carries the id of that document
C11_PushAfterInsert ==
    /\ [](/\ \A n \in BagToSet(pushed) :
                n.id \in DOMAIN news /\ news[n.id].breaking /\ CopiesIn(n, pushed) = 1
          /\ \A d \in Ids : PushCalls(d) <= 1
          /\ \A d \in Ids \ DOMAIN news : PushCalls(d) = 0)
    /\ [][/\ \A r \in RunIds :
                runs'[r].pc = "pushq" /\ runs'[r] # runs[r] =>
                    /\ runs[r].pc = "add"
                    /\ runs'[r].ref \notin DOMAIN news
                    /\ DOMAIN news' = DOMAIN news \cup {runs'[r].ref}
                    /\ news'[runs'[r].ref].breaking
                    /\ news'[runs'[r].ref].sourceUrl = Item(runs[r].item).link
                    /\ news'[runs'[r].ref].summary # <<>>
          /\ pushed' # pushed =>
                \E r \in RunIds : \E to \in SUBSET DOMAIN tokens :
                    /\ runs[r].pc = "pushsend"
                    /\ pushed' = pushed (+) SetToBag({[id |-> runs[r].ref, to |-> to]})]_vars

\* one notification has been sent, for the breaking document, the store also holds
\* a document that is not breaking, and a run has just skipped the breaking article
\* as a duplicate
C11_Witness ==
    /\ BagCardinality(pushed) = 1
    /\ \E d \in DOMAIN news : ~news[d].breaking
    /\ \E r \in RunIds : log[r].skipped = 3
    /\ \A n \in BagToSet(pushed) : news[n.id].title = T_d

(* ------------------- claims about the exact-match runs ---------------- *)

\* C1: when the runs of an exact-match script do not overlap, no two news documents
\* have the same dedup key (sourceUrl in index1 and part000, title elsewhere)
C1_NoTwoDocumentsShareKey ==
    \A i \in DOMAIN news : \A j \in DOMAIN news :
        i # j => KeyOf(variant, news[i]) # KeyOf(variant, news[j])

\* a run has skipped an article whose key a stored document has, and the store
\* holds two documents
C1_Witness ==
    /\ Cardinality(DOMAIN news) >= 2
    /\ \E r \in RunIds : \E d \in DOMAIN news :
           /\ log[r].skipped # 0
           /\ KeyOf(variant, news[d]) = KeyOf(variant, Item(log[r].skipped) @@ [sourceUrl |-> Item(log[r].skipped).link])

\* run r takes the step that applies its add
AddStep(r) == runs[r].pc = "add" /\ runs'[r] # runs[r] /\ ~log'[r].caught

\* C4: nothing resolves the conflict of two overlapping runs: an add that follows a
\* passed lookup always creates a document, also when another run has stored a
\* document with the same key since the lookup
C4_AddAlwaysCreates ==
    [][\A r \in RunIds : AddStep(r) =>
          /\ Cardinality(DOMAIN news') = Cardinality(DOMAIN news) + 1
          /\ \E id \in DOMAIN news' \ DOMAIN news :
                /\ news'[id].sourceUrl = Item(runs[r].item).link
                /\ news'[id].title = Item(runs[r].item).title]_vars

\* two overlapping runs have each inserted a document and the two have the same key
C4_Witness ==
    \E a \in log[1].inserted : \E b \in log[2].inserted :
        /\ a # b
        /\ KeyOf(variant, news[a]) = KeyOf(variant, news[b])

\* run r takes the step in which a catch logs the error of an awaited call
CatchStep(r) == log'[r].caught /\ runs'[r] # runs[r]

\* C10 as stated: after the catch the rest of the run is abandoned
C10_RunAbandoned ==
    [][\A r \in RunIds : CatchStep(r) => runs'[r].pc = "idle"]_vars

\* C10 amended: the catch abandons the loop it encloses and changes nothing in the
\* store; the run ends there, except that fetchNews of the language scripts goes on
\* to the next language; the failed call is not made again
C10_CatchAbandonsLoop ==
    [][\A r \in RunIds : CatchStep(r) =>
          /\ news' = news
          /\ log[r].inserted \subseteq DOMAIN news'
          /\ runs'[r].item = 0 /\ runs'[r].left = 0
          /\ IF variant \in {"index1", "part000"} /\ runs[r].seg < Len(Segments(variant))
             THEN runs'[r].pc = "api" /\ runs'[r].seg = runs[r].seg + 1
             ELSE runs'[r].pc = "idle"]_vars

\* a run that had inserted a document has failed in its first language and waits
\* for the news source again, for the second language
C10_Witness ==
    \E r \in RunIds :
        /\ log[r].caught /\ log[r].inserted # {}
        /\ runs[r].pc = "api" /\ runs[r].seg = 2

(* ------------------ claims about the near-duplicate runs -------------- *)

\* numerator and denominator of the Jaccard similarity of article i's title and the
\* title of window entry e
Shared(i, e) == Cardinality(Range(WordsTable[i]) \cap Range(WordsOf(e.data.title)))
Joint(i, e) == Cardinality(Range(WordsTable[i]) \cup Range(WordsOf(e.data.title)))

\* the similarity is strictly greater than 0.65
Similar(i, e) == 20 * Shared(i, e) > 13 * Joint(i, e)

\* article i has a title, a link and (where the script asks for one) a summary
Usable(i) ==
    /\ Item(i).title # <<>> /\ Item(i).link # ""
    /\ variant \in SentenceVariants => SummaryOf(variant, i) # <<>>

\* run r takes the step in which the window query answers and the loop starts
WindowStep(r) == runs[r].pc = "window" /\ runs'[r].pc \in {"add", "update"}

\* C2: an article is inserted exactly when no document of the window loaded at the
\* start of the run (timestamp within the last 6 hours) has a Jaccard similarity
\* above 0.65 with it; the matched document is the one of highest similarity, the
\* first of the window on a tie
C2_MatchBySimilarity ==
    /\ [](\A r \in RunIds : runs[r].pc \in {"add", "update"} =>
            LET w == runs[r].window
                i == runs[r].item
            IN /\ \A a \in feed : Usable(a) =>
                     ((AwaitOf(variant, a, w) = "add") <=> (\A k \in DOMAIN w : ~Similar(a, w[k])))
               /\ runs[r].pc = "add" => \A k \in DOMAIN w : ~Similar(i, w[k])
               /\ runs[r].pc = "update" =>
                     \E k \in DOMAIN w :
                         /\ w[k].id = runs[r].ref
                         /\ Similar(i, w[k])
                         /\ \A j \in DOMAIN w :
                               /\ j < k => Shared(i, w[j]) * Joint(i, w[k])
                                               < Shared(i, w[k]) * Joint(i, w[j])
                               /\ j > k => Shared(i, w[j]) * Joint(i, w[k])
                                               <= Shared(i, w[k]) * Joint(i, w[j]))
    /\ [][\A r \in RunIds : WindowStep(r) =>
              /\ {runs'[r].window[k].id : k \in DOMAIN runs'[r].window}
                    = {d \in DOMAIN news : now - news[d].timestamp < 6 * Hour}
              /\ \A k \in DOMAIN runs'[r].window :
                    runs'[r].window[k].data = news[runs'[r].window[k].id]]_vars

\* a run is about to merge an article into the second of two window documents: the
\* first is similar to the article, the second more similar
C2_Witness ==
    \E r \in RunIds :
        /\ runs[r].pc = "update"
        /\ Len(runs[r].window) = 2
        /\ runs[r].window[2].id = runs[r].ref
        /\ Similar(runs[r].item, runs[r].window[1])

\* a run is about to merge an article into the first of two window documents that
\* are equally similar to it
C2_WitnessTie ==
    \E r \in RunIds :
        /\ runs[r].pc = "update"
        /\ Len(runs[r].window) = 2
        /\ runs[r].window[1].id = runs[r].ref
        /\ Shared(runs[r].item, runs[r].window[1]) * Joint(runs[r].item, runs[r].window[2])
              = Shared(runs[r].item, runs[r].window[2]) * Joint(runs[r].item, runs[r].window[1])

\* run r takes the step that applies the update of its merge
UpdateStep(r) == runs[r].pc = "update" /\ runs'[r] # runs[r] /\ ~log'[r].caught

\* the fields of a news document a merge leaves alone
KeptFields == {"title", "category", "language", "source", "sourceUrl", "breaking",
               "likes", "views", "likedBy", "viewedBy", "timestamp", "micros"}

\* the frame of a merge by run r: no document appears, no other document and no
\* other field of the matched document changes
MergeFrame(r) ==
    /\ DOMAIN news' = DOMAIN news
    /\ \A d \in DOMAIN news : d # runs[r].ref => news'[d] = news[d]
    /\ \A f \in KeptFields : news'[runs[r].ref][f] = news[runs[r].ref][f]
    /\ news'[runs[r].ref].summary \in
           {news[runs[r].ref].summary, SummaryOf(variant, runs[r].item)}
    /\ news'[runs[r].ref].image \in {news[runs[r].ref].image, Item(runs[r].item).image}

Answered(route, d, dev) ==
    {a \in BagToSet(resp) : a.route = route /\ a.id = d /\ a.dev = dev /\ a.status = 200}

\* C5: with one request at a time, a checked route counts a device id once per
\* document: the counter equals the number of ids in the list, the first request of
\* an id adds 1 and the id, a later request of the id changes nothing
C5_OncePerDevice ==
    /\ [](\A d \in DOMAIN news : \A route \in CheckedRoutes(variant) :
             news[d][CounterOf(route)] = Cardinality(news[d][ListOf(route)]))
    /\ [][\A q \in BagToSet(reqs) :
             q.route \in CheckedRoutes(variant) /\ q.id \in DOMAIN news =>
                 IF q.dev \in news[q.id][ListOf(q.route)] THEN news' = news
                 ELSE news' # news =>
                         news' = [news EXCEPT ![q.id] =
                                     [@ EXCEPT ![CounterOf(q.route)] = @ + 1,
                                               ![ListOf(q.route)] = @ \cup {q.dev}]]]_vars

\* a device has been answered twice on one checked route for one document, and the
\* counter of the document is 1
C5_Witness ==
    \E d \in DOMAIN news : \E route \in CheckedRoutes(variant) : \E dev \in Devices :
        /\ \/ Cardinality(Answered(route, d, dev)) >= 2
           \/ \E a \in Answered(route, d, dev) : CopiesIn(a, resp) >= 2
        /\ news[d][CounterOf(route)] = 1
        /\ news[d][ListOf(route)] = {dev}

\* the answer of a plain route to a request it has carried out
Done(route, d) == [route |-> route, id |-> d, dev |-> "", status |-> 200, success |-> TRUE]

\* C6: on a route without a device check every request that succeeds adds exactly 1
\* to the counter of its document and changes nothing else, however the requests
\* interleave: the counter is the number of requests that have succeeded
C6_AtomicIncrement ==
    /\ [](\A d \in DOMAIN news : \A route \in PlainRoutes(variant) :
             news[d][CounterOf(route)] = CopiesIn(Done(route, d), resp))
    /\ [][\A d \in DOMAIN news : \A route \in PlainRoutes(variant) :
             CopiesIn(Done(route, d), resp') > CopiesIn(Done(route, d), resp) =>
                 news' = [news EXCEPT ![d] = [@ EXCEPT ![CounterOf(route)] = @ + 1]]]_vars

\* two requests of a plain route have succeeded on one document while a third one,
\* which arrived before the second was answered, is still waiting for the store
C6_Witness ==
    \E d \in DOMAIN news : \E route \in PlainRoutes(variant) :
        /\ news[d][CounterOf(route)] = 2
        /\ \E q \in BagToSet(reqs) : q.route = route /\ q.id = d

(* ---------------------- claims about deleteOldNews -------------------- *)

\* what a step of deleteOldNews does, when the scripts of noWrite are those that
\* issue no commit for an empty snapshot: a commit removes exactly the documents
\* more than seven days older than the start of the job, in one commit, and leaves
\* the other collection alone; nothing else removes or changes a document
DeleteSteps(noWrite) ==
    /\ commits' # commits =>
          LET old == {d \in DOMAIN news : jobs.started - news[d].timestamp > 7 * Day}
          IN /\ commits' = commits + 1
             /\ DOMAIN news' = DOMAIN news \ old
             /\ \A d \in DOMAIN news' : news'[d] = news[d]
             /\ old = {} => variant \notin noWrite
    /\ commits' = commits => news' = news
    /\ jobs.pc = "query" /\ jobs'.pc = "idle" /\ ~jobs'.caught =>
          /\ variant \in noWrite
          /\ \A d \in DOMAIN news : jobs.started - news[d].timestamp <= 7 * Day
    /\ jobs.pc = "query" /\ jobs'.pc = "commit" /\ jobs'.batch = {} => variant \notin noWrite
    /\ tokens' = tokens

\* C7 as stated: the scripts that issue no write for an empty snapshot are those
\* with a try/catch
C7_NoWriteWithTryCatch == [][DeleteSteps(TryCatchVariants)]_vars

\* C7 amended: the scripts that issue no commit for an empty snapshot are those that
\* test snapshot.empty; the others, with or without try/catch, commit an empty batch
C7_DeleteOlderThanSevenDays == [][DeleteSteps(EmptyCheckVariants)]_vars

\* a job has removed a document and kept one that was exactly seven days old when
\* the job started
C7_Witness ==
    /\ commits = 1 /\ jobs = IdleJob
    /\ Cardinality(DOMAIN news) = 1
    /\ \E d \in DOMAIN news : now - news[d].timestamp = 7 * Day

(* ---------------------------- C12: the cache -------------------------- *)

\* the list is the limit most recent documents of the store, newest first
MostRecent(articles, limit) ==
    /\ Descends(articles)
    /\ Len(articles) = Min(limit, Cardinality(DOMAIN news))
    /\ \A k, l \in 1..Len(articles) : k # l => articles[k].id # articles[l].id
    /\ \A d \in DOMAIN news :
          (\A k \in 1..Len(articles) : articles[k].id # d) =>
              \A k \in 1..Len(articles) : NotOlder(articles[k].data, news[d])

\* the cache is filled and younger than ten minutes
Fresh == cache.cachedNews # <<>> /\ now - cache.lastFetchTime < 10 * 60 * 1000

\* a request arrives and its handler sends the query to the store
Queried == BagCardinality(reqs') > BagCardinality(reqs)

\* a request arrives and is answered at once, without a query
Immediate == reqs' = reqs /\ page' # page

\* a query answers and its handler sends the list
Delivered == BagCardinality(reqs') < BagCardinality(reqs) /\ page'.status = 200

\* C12: part_002 answers GET /news from cachedNews without a query exactly when
\* cachedNews is not empty and less than ten minutes have passed since
\* lastFetchTime; otherwise it reads the 50 most recent documents, makes them
\* cachedNews, sets lastFetchTime to the time its handler read and sends them; and
\* no other step changes cachedNews
C12_CacheOrStore ==
    [][/\ Queried => ~Fresh
       /\ Immediate => Fresh /\ page'.status = 200 /\ page'.articles = cache.cachedNews
                          /\ cache' = cache /\ news' = news
       /\ Delivered => /\ MostRecent(page'.articles, 50)
                       /\ cache'.cachedNews = page'.articles
                       /\ cache'.lastFetchTime = page'.q.at
       /\ cache'.cachedNews # cache.cachedNews => Delivered]_vars

\* a request was answered from a cache of 50 documents that a fetchNews run has
\* kept valid for longer than ten minutes after it was read
C12_Witness ==
    /\ page.status = 200 /\ page.q.pc = "cache"
    /\ Len(page.articles) = 50
    /\ page.articles = cache.cachedNews
    /\ page.q.at - cache.lastFetchTime < 10 * 60 * 1000

\* the cache had run out and the store was read again
C12_WitnessReread ==
    /\ page.status = 200 /\ page.q.pc = "get"
    /\ cache.cachedNews # <<>>
    /\ cache.lastFetchTime > ReadNow

(* ------------------- C13: what a run never stores --------------------- *)

\* document d was made of an article of the source that has a title and a link
FromArticle(d) ==
    \E i \in feed : /\ Item(i).title # <<>> /\ Item(i).link # ""
                    /\ news[d].title = Item(i).title /\ news[d].sourceUrl = Item(i).link

\* C13: every document a fetch run has stored has a title and a sourceUrl, those of
\* an article that has both, and in the scripts that clean the summary by sentences
\* (src/index.js 118-176, part_000, the first script of part_004) a summary that is
\* not empty
C13_StoredArticlesComplete ==
    \A d \in DOMAIN news :
        /\ news[d].title # <<>> /\ news[d].sourceUrl # ""
        /\ FromArticle(d)
        /\ variant \in {"index1", "part000", "part004a"} => news[d].summary # <<>>

\* a run of a script that cleans by sentences is over and has stored two documents,
\* while the source offers an article without a title, one without a link and one
\* whose cleaned summary is empty
C13_Witness ==
    /\ variant \in {"index1", "part000", "part004a"}
    /\ runs[1].pc = "idle" /\ ~log[1].caught
    /\ Cardinality(DOMAIN news) >= 2
    /\ \E i, j, k \in feed : /\ Item(i).title = <<>> /\ Item(j).link = ""
                             /\ Item(k).title # <<>> /\ Item(k).link # ""
                             /\ SummaryOf(variant, k) = <<>>

(* ----------------------- C14: the categories -------------------------- *)

\* the scripts that classify with mapCategory, detectCategoryFromKeywords or the
\* validated answer of part_002
ClassifyingVariants == AllVariants \ {"part001", "part003"}

SixCategories == {"India", "World", "Business", "Sports", "Technology", "Health"}

\* the category text names one of the five categories mapCategory knows
Recognised(c) ==
    \E w \in {W_world, W_business, W_sports, W_technology, W_health} :
        includes(toLowerCase(c), w)

\* the text holds a keyword of detectCategoryFromKeywords
HasKeyword(text) ==
    \E k \in DOMAIN Keywords : \E w \in Keywords[k].words : includes(toLowerCase(text), w)

\* the articles whose category names none of the five, and those whose text holds
\* no keyword
Unrecognised == {i \in DOMAIN ItemTable : ~Recognised(Item(i).category)}
NoKeyword ==
    {i \in DOMAIN ItemTable : ~HasKeyword(Item(i).description \o <<" ">> \o Item(i).title)}

\* document d was made of article i
MadeOf(d, i) == news[d].title = Item(i).title /\ news[d].sourceUrl = Item(i).link

\* C14: in the scripts that classify with mapCategory, detectCategoryFromKeywords
\* or the validated answer of part_002 every stored document has one of the six
\* categories, and it has India when the category of the article is absent, empty
\* or names none of the five others (mapCategory), when the text of the article
\* holds no keyword (detectCategoryFromKeywords), when the answer of the service is
\* none of the six (part_002)
C14_CategoryInFixedSet ==
    /\ [](variant \in ClassifyingVariants =>
            \A d \in DOMAIN news :
                /\ news[d].category \in SixCategories
                /\ \A i \in feed :
                      /\ MadeOf(d, i) /\ variant \notin {"index3", "part002"}
                            /\ i \in Unrecognised => news[d].category = "India"
                      /\ MadeOf(d, i) /\ variant = "index3" /\ i \in NoKeyword
                            => news[d].category = "India")
    /\ [][variant = "part002" =>
            \A r \in RunIds :
                AddStep(r) /\ runs[r].ai.answer \notin SixCategories =>
                    \A d \in DOMAIN news' \ DOMAIN news : news'[d].category = "India"]_vars

\* a script with mapCategory has stored an article of category 'top' and an article
\* without a category, both as India, and one of a category it knows
C14_Witness ==
    /\ variant \in ClassifyingVariants \ {"index3", "part002"}
    /\ \E d, e \in DOMAIN news :
          /\ \E i \in feed : MadeOf(d, i) /\ Item(i).category = C_top
          /\ news[d].category = "India"
          /\ news[e].category # "India"

\* part_002 has stored a document after the service answered a category that is
\* none of the six
C14_WitnessAnswer ==
    /\ variant = "part002"
    /\ runs[1].pc = "add" /\ runs[1].ai.answer \notin SixCategories
    /\ runs[1].ai.category = "India"
    /\ news # <<>>

\* the RSS script has stored an article whose text holds no keyword
C14_WitnessKeywords ==
    /\ variant = "index3"
    /\ \E d \in DOMAIN news : \E i \in feed :
          /\ MadeOf(d, i) /\ i \in NoKeyword

(* ------------------- C15: the article gets stored --------------------- *)

\* the store holds a document with the dedup key of an article of the source
Stored ==
    \E d \in DOMAIN news : \E i \in feed :
        news[d].title = Item(i).title /\ news[d].sourceUrl = Item(i).link

\* a run is over and none of its requests and store calls failed
RunSucceeded == runs[1].pc = "idle" /\ "failed" \notin log[1].bad

\* the same, and every answer of the summary service could be parsed
RunUsedAnswers == runs[1].pc = "idle" /\ log[1].bad = {}

Answers(q, a) ==
    /\ CopiesIn(q, reqs') < CopiesIn(q, reqs)
    /\ CopiesIn(a, resp') > CopiesIn(a, resp)
    /\ a.route = q.route /\ a.id = q.id /\ a.dev = q.dev

\* the step answers a request with an error status
Rejects == \E a \in BagToSet(resp') : CopiesIn(a, resp') > CopiesIn(a, resp) /\ a.status # 200

\* the routes of src/index.js 742-800 answer 400 to a request without deviceId
Answers400(a) == variant = "index3" /\ a.dev = ""

\* C16: a like or view request that is answered 400, 404 or 500 leaves the store
\* as it is, and no request creates a document; 400 is the answer to a request
\* without deviceId in src/index.js 742-800; a request for a document that does not
\* exist is answered 404 by the read of a read-then-update route (500 when the
\* read throws) and 500 by the update, also by the update of a read-then-update
\* route whose document deleteOldNews removed after the read
C16_RejectedChangesNothing ==
    [][/\ Rejects => news' = news
       /\ DOMAIN news' \subseteq DOMAIN news
       /\ \A a \in BagToSet(resp') :
             CopiesIn(a, resp') > CopiesIn(a, resp) => (a.status = 400 <=> Answers400(a))
       /\ \A q \in BagToSet(reqs) : \A a \in BagToSet(resp') :
             Answers(q, a) /\ q.id \notin DOMAIN news =>
                 /\ ~a.success /\ news' = news
                 /\ q.pc = "get" => a.status \in {404, 500}
                 /\ q.pc = "update" => a.status = 500]_vars

\* the like route of part_000 has read a document, deleteOldNews has removed it,
\* and the request was answered 500; the store holds the other document only
C16_Witness ==
    /\ variant = "part000" /\ commits = 1
    /\ DOMAIN news = {2} /\ news[2].likes = 0 /\ news[2].likedBy = {}
    /\ \E a \in BagToSet(resp) : a.route = "like" /\ a.id = 1 /\ a.dev # "" /\ a.status = 500

\* a request for a document that never existed was answered 404
C16_WitnessNotFound ==
    \E a \in BagToSet(resp) : a.id \notin DOMAIN news /\ a.status = 404 /\ commits = 0

(* ------------------------ C17: registration --------------------------- *)

\* the step answers a registration with a
RegAnswered(a) == CopiesIn(a, resp') > CopiesIn(a, resp)

\* the values of answer a are those of registration document doc
CarriesValues(doc, a) ==
    /\ doc.token = a.token
    /\ variant = "index3" =>
          doc.categories = a.list /\ doc.platform = (IF a.tag = "" THEN "web" ELSE a.tag)
    /\ variant = "part000" => doc.interests = a.list /\ doc.language = a.tag

\* the step registers again what the document of the token already holds
Repeats(a) ==
    /\ RegAnswered(a) /\ a.status = 200
    /\ a.token \in DOMAIN tokens /\ CarriesValues(tokens[a.token], a)

\* C17 as stated: registering the values a token is registered with leaves the
\* collection as it is
C17_AsStated == [][\A a \in BagToSet(resp') : Repeats(a) => tokens' = tokens]_vars

\* C17: the document of a registration has the token as its id; a successful
\* request replaces the document of its token by its own values (categories [] and
\* platform 'web' when absent) and the time of the write, and changes no other
\* document; nothing else changes the collection; registering the same values
\* again changes createdAt only; a /register-device request without a token is
\* answered 400
C17_KeyedByToken ==
    /\ [](\A t \in DOMAIN tokens : tokens[t].token = t /\ t # "")
    /\ [][/\ \A a \in BagToSet(resp') :
                RegAnswered(a) /\ a.status = 200 =>
                    /\ DOMAIN tokens' = DOMAIN tokens \cup {a.token}
                    /\ CarriesValues(tokens'[a.token], a)
                    /\ tokens'[a.token].createdAt = now
                    /\ \A t \in DOMAIN tokens \ {a.token} : tokens'[t] = tokens[t]
          /\ (\A a \in BagToSet(resp') : RegAnswered(a) => a.status # 200) => tokens' = tokens
          /\ \A a \in BagToSet(resp') :
                RegAnswered(a) =>
                    (a.status = 400 <=> variant = "index3" /\ a.token = "")]_vars

\* a token was registered twice with the same values, the second time later; its
\* one document carries the time of the second write
C17_Witness ==
    \E a \in BagToSet(resp) :
        /\ a.status = 200 /\ CopiesIn(a, resp) = 2
        /\ DOMAIN tokens = {a.token}
        /\ CarriesValues(tokens[a.token], a)
        /\ tokens[a.token].createdAt > 0

\* a token was registered with other values after its first registration
C17_WitnessLast ==
    \E a, b \in BagToSet(resp) :
        /\ a.status = 200 /\ b.status = 200 /\ a.token = b.token /\ a.list # b.list
        /\ CarriesValues(tokens[a.token], a)

(* ------------------ C18: concurrent checked requests ------------------ *)

\* C18: on the routes that check the device id, whatever the interleaving of the
\* requests, likes is the number of ids in likedBy and views the number of ids in
\* viewedBy
C18_CounterMatchesList ==
    \A d \in DOMAIN news : \A route \in CheckedRoutes(variant) :
        news[d][CounterOf(route)] = Cardinality(news[d][ListOf(route)])

\* two requests of one device were both answered with success for one document:
\* the counter is 2 and the list holds the one id
C18_WitnessRace ==
    \E d \in DOMAIN news : \E route \in CheckedRoutes(variant) : \E dev \in Devices :
        /\ news[d][CounterOf(route)] = 2
        /\ news[d][ListOf(route)] = {dev}
        /\ \E a \in Answered(route, d, dev) : a.success /\ CopiesIn(a, resp) = 2

(* ------------- C19: similar articles of one response ------------------ *)

\* the Jaccard similarity of the two titles is greater than 0.65
TitlesAlike(a, b) ==
    LET A == Range(WordsOf(a))
        B == Range(WordsOf(b))
    IN 20 * Cardinality(A \cap B) > 13 * Cardinality(A \cup B)

\* the documents run r has inserted when the step ends it
InsertedBy(r) == log[r].inserted \cup (DOMAIN news' \ DOMAIN news)

\* C19: when a run of a near-duplicate script ends, no two documents it has
\* inserted have titles of similarity greater than 0.65
C19_OneDocumentPerStory ==
    [][\A r \in RunIds :
          runs[r].pc # "idle" /\ runs'[r].pc = "idle" =>
              \A d, e \in InsertedBy(r) :
                  d # e => ~TitlesAlike(news'[d].title, news'[e].title)]_vars

\* a run has inserted two documents with the same title and is over
C19_WitnessPair ==
    /\ runs[1].pc = "idle" /\ ~log[1].caught /\ now = 0
    /\ \E d, e \in DOMAIN news :
          /\ d # e /\ news[d].title = news[e].title
          /\ news[d].timestamp = now /\ news[e].timestamp = now
          /\ TitlesAlike(news[d].title, news[e].title)

(* ------------------- C20: the identical title ------------------------- *)

\* C20: a near-duplicate script never inserts an article whose title is the title
\* of a document of the window its run loaded
C20_SameTitleIsDuplicate ==
    [][\A r \in RunIds :
          AddStep(r) =>
              \A k \in 1..Len(runs[r].window) :
                  runs[r].window[k].data.title # Item(runs[r].item).title]_vars

\* the store holds two documents with one title that has no word longer than three
\* letters, the second inserted by a run that had the first in its window
C20_WitnessNoWords ==
    \E d, e \in DOMAIN news :
        /\ d # e /\ news[d].title = news[e].title
        /\ WordsOf(news[d].title) = <<>>
        /\ news[d].timestamp < news[e].timestamp
        /\ news[e].timestamp - news[d].timestamp < HoursWindow * Hour

(* ------------------ C21: the length of a stored summary --------------- *)

\* C21: no step makes the summary of a stored document shorter
C21_SummaryNeverShorter ==
    [][\A d \in DOMAIN news \cap DOMAIN news' :
          Len(news'[d].summary) >= Len(news[d].summary)]_vars

\* a run is about to apply a merge whose update object, computed from the window's
\* copy, sets a summary shorter than the one the document holds by now
C21_WitnessStale ==
    \E r \in RunIds :
        /\ variant \in NearVariants
        /\ runs[r].pc = "update"
        /\ runs[r].ref \in DOMAIN news
        /\ runs[r].ref \in log[r].updated
        /\ LET dup == CHOOSE d \in Range(runs[r].window) : d.id = runs[r].ref
               summary == SummaryOf(variant, runs[r].item)
           IN /\ "summary" \in MergeUpdate(dup.data, summary, Item(runs[r].item).image)
              /\ Len(summary) < Len(news[runs[r].ref].summary)

(* ------------------- C22: the age of the served cache ----------------- *)

\* the step in which GET /news of part_002 answers with cachedNews
ServesCache ==
    /\ variant = "part002"
    /\ page' # page
    /\ page'.q.route = "cached" /\ page'.q.pc = "cache"

\* C22: a list GET /news serves from the cache was read from the store at most
\* CACHE_DURATION before the request
C22_CacheAtMostTenMinutesOld ==
    [][ServesCache => page'.q.at - cache.readAt <= CACHE_DURATION]_vars

\* the cache holds a list read more than CACHE_DURATION ago, a fetch run has set
\* lastFetchTime since, and the test of the handler accepts the cache
C22_WitnessStale ==
    /\ variant = "part002"
    /\ cache.cachedNews # <<>>
    /\ cache.lastFetchTime > cache.readAt
    /\ now - cache.readAt > CACHE_DURATION
    /\ CacheValid(cache, now)
    /\ page.status = 200 /\ page.q.route = "cached" /\ page.q.pc = "cache" /\ page.q.at = now

(* --------------------- C23: a walk through the pages ------------------ *)

\* the documents the filter of request q matches, the cursor left aside
Wanted(q) == Matching(variant, [q EXCEPT !.start = <<>>], news)

\* page is a page of a walk that started without a cursor, in a script that returns
\* the lastTimestamp a client needs to go on
WalkPage ==
    /\ variant \in PagedVariants
    /\ page.status = 200 /\ page.q.route = "news"
    /\ page.q.seen # <<>>

\* the ids of the articles of the page
OnPage == {a.id : a \in Range(page.articles)}

\* the matching documents the walk has passed by: neither on an earlier page nor on
\* this one, and ahead of the last article of this page in the order of the query
\* (all of them, when the page is empty)
PassedBy ==
    {d \in Wanted(page.q) \ (page.q.seen[1] \cup OnPage) :
        \/ page.articles = <<>>
        \/ RankOf(news, Wanted(page.q), d)
               > RankOf(news, Wanted(page.q), page.articles[Len(page.articles)].id)}

\* C23: on every page of a walk no article was on an earlier page and no matching
\* document has been passed by, so the walk returns every matching document once
C23_EveryDocumentOnce ==
    WalkPage => /\ OnPage \cap page.q.seen[1] = {}
                /\ PassedBy = {}

\* the second page of a walk has passed by a document with the timestamp of the last
\* article of the first page, to the millisecond
C23_WitnessSkipped ==
    /\ WalkPage /\ page.q.n = 2
    /\ \E d \in PassedBy : news[d].timestamp = page.q.cursor.ms

\* the half of C23 that holds: no article of a page was on an earlier page
C23_NoDocumentTwice == WalkPage => OnPage \cap page.q.seen[1] = {}

(* ---------------- C24: the category the service answers --------------- *)

\* C24: in part_003 every stored document has one of the six categories
C24_AiCategoryInFixedSet ==
    variant = "part003" => \A d \in DOMAIN news : news[d].category \in SixCategories

\* the half of C24 that holds: when detectCategory fails the article is stored with
\* the category India, and a document stored after an answer has the answer as its
\* category
C24_AnswerStoredAsIs ==
    [][variant = "part003" =>
          \A r \in RunIds :
              AddStep(r) =>
                  \A d \in DOMAIN news' \ DOMAIN news :
                      news'[d].category = IF runs[r].ai.answer = "" THEN "India"
                                          ELSE runs[r].ai.answer]_vars

\* part_003 has stored a document whose category is none of the six
C24_WitnessOther ==
    /\ variant = "part003"
    /\ \E d \in DOMAIN news : news[d].category = "Politics"

(* ------------------ C25: an article the AI call fails on -------------- *)

\* run r takes the step in which the AI request of part_002 fails or its answer is
\* not JSON
AiFailureStep(r) ==
    /\ variant = "part002"
    /\ runs[r].pc = "ai" /\ runs'[r] # runs[r] /\ runs'[r].pc # "add"

\* every article the source offers has a title and a url
AllUsable == \A i \in feed : ~Skips(variant, i)

\* C25: the step in which the AI call fails for an article stores nothing and is
\* not the catch of the run; the loop goes on with the next article of the response
\* (its duplicate lookup), and the run ends only when there is none
C25_FailureSkipsOneArticle ==
    [][\A r \in RunIds :
          AiFailureStep(r) =>
              /\ news' = news
              /\ ~log'[r].caught
              /\ log'[r].bad # {}
              /\ AllUsable /\ runs[r].left > 0 =>
                    /\ runs'[r].pc = "lookup"
                    /\ runs'[r].left = runs[r].left - 1
              /\ runs[r].left = 0 => runs'[r].pc = "idle"]_vars

\* the AI call has failed for one article of the run and the run is about to store
\* the next article of the response, the last one
C25_Witness ==
    /\ variant = "part002"
    /\ runs[1].pc = "add" /\ runs[1].left = 0
    /\ log[1].bad # {} /\ log[1].inserted = {}
    /\ news = <<>>

\* the run has stored the article after the one the AI call failed on, and is over
C25_WitnessStored ==
    /\ variant = "part002"
    /\ runs[1].pc = "idle" /\ log[1].bad # {} /\ ~log[1].caught
    /\ Cardinality(DOMAIN news) = 1

(* ------------------ C26: whom sendBreakingPush sends to --------------- *)

\* the registrations whose language is that of document d and whose interests
\* contain its category
Interested(d) ==
    {t \in DOMAIN tokens : /\ tokens[t].language = news[d].language
                           /\ news[d].category \in tokens[t].interests}

\* run r leaves sendBreakingPush through its catch
PushFailureStep(r) ==
    /\ runs[r].pc \in {"pushq", "pushsend"}
    /\ runs'[r] # runs[r] /\ runs'[r].pc # "pushsend"
    /\ "failed" \in log'[r].bad /\ pushed' = pushed

\* C26: a notification goes to exactly the registrations interested in its document,
\* and there is at least one; a send is awaited only for such a set; the step in
\* which the query or the send fails changes no document, is not the catch of the
\* fetch and leaves the loop where a successful call leaves it
C26_PushToInterested ==
    /\ [](/\ \A n \in BagToSet(pushed) : n.to = Interested(n.id) /\ n.to # {}
          /\ \A r \in RunIds :
                runs[r].pc = "pushsend" =>
                    runs[r].to = Interested(runs[r].ref) /\ runs[r].to # {})
    /\ [][\A r \in RunIds :
            /\ PushFailureStep(r) =>
                  /\ news' = news /\ runs[r].ref \in DOMAIN news'
                  /\ ~log'[r].caught
                  /\ runs'[r] \in Continue(variant, runs[r], runs[r].left)
            /\ runs[r].pc = "pushq" /\ runs'[r] # runs[r] /\ Interested(runs[r].ref) = {} =>
                  pushed' = pushed /\ runs'[r].pc # "pushsend"]_vars

\* a notification has gone to the one registration interested in its document, and
\* the other registration has got none
C26_Witness ==
    /\ \E n \in BagToSet(pushed) : n.to = {"tok1"} /\ news[n.id].language = "en"
    /\ \A n \in BagToSet(pushed) : "tok2" \notin n.to

\* a run has stored a breaking document no registration is interested in, and is over
\* with nothing sent
C26_WitnessNobody ==
    /\ runs[1].pc = "idle" /\ runs[2].pc = "idle" /\ ~log[1].caught /\ log[1].bad = {}
    /\ pushed = EmptyBag
    /\ \E d \in DOMAIN news : news[d].breaking /\ Interested(d) = {}

\* sendBreakingPush has failed for a document, the document is stored, and the run
\* is at the duplicate lookup of the next article
C26_WitnessFailure ==
    /\ runs[1].pc = "lookup" /\ "failed" \in log[1].bad /\ ~log[1].caught
    /\ log[1].inserted # {}
    /\ \A d \in log[1].inserted : d \in DOMAIN news /\ news[d].breaking
    /\ pushed = EmptyBag


(* ---- C27: the sentence cleaner returns a prefix of the sentences ---- *)

\* the terminated sentences of the cleaned text, each as the loop adds it
PiecesOf(text) ==
    LET sentences == MatchSentences(CleanSteps(CleanerSteps, text))
    IN [k \in 1..Len(sentences) |-> trim(RestoreDecimals(sentences[k]))]

WordsIn(s) == Len(split(s))

\* the number of words of the first k pieces
RECURSIVE WordsUpTo(_, _)
WordsUpTo(pieces, k) ==
    IF k = 0 THEN 0 ELSE WordsUpTo(pieces, k - 1) + WordsIn(pieces[k])

\* the sentences that fit: the count with the sentence is at most maxWords and no
\* sentence before it had brought the count to minWords
Fitting(pieces) ==
    {k \in 1..Len(pieces) :
        /\ WordsUpTo(pieces, k) <= MaxWords
        /\ \A j \in 1..(k - 1) : WordsUpTo(pieces, j) < MinWords}

\* C27: what cleanAndTrimSummary(text) returns, with the default minWords = 80 and
\* maxWords = 110, is the first K terminated sentences of the cleaned text joined by
\* single spaces, where sentence K + 1 is the first that would bring the word count
\* above maxWords or follows the one that brought it to minWords or more; the result
\* has at most maxWords words, and it is empty when the text is empty, has no
\* terminated sentence, or its first sentence has more than maxWords words.
C27_PrefixOfSentences ==
    [][jobs.pc = "cleanget" /\ jobs'.cleaned # <<>> =>
          \A d \in DOMAIN news :
             LET text == news[d].summary
                 pieces == PiecesOf(text)
                 K == Cardinality(Fitting(pieces))
                 result == jobs'.cleaned[d]
             IN /\ Fitting(pieces) = 1..K
                /\ result = JoinWords(SubSeq(pieces, 1, K))
                /\ K < Len(pieces) =>
                      \/ WordsUpTo(pieces, K + 1) > MaxWords
                      \/ WordsUpTo(pieces, K) >= MinWords
                /\ K > 0 => WordsIn(result) = WordsUpTo(pieces, K)
                /\ WordsIn(result) <= MaxWords
                /\ (text = <<>> \/ pieces = <<>> \/ WordsIn(pieces[1]) > MaxWords)
                      => result = <<>>]_vars

\* a summary of a sentence of 50 words and one of 61 was cleaned: the result is the
\* first sentence alone, below minWords, because the second would make 111 words
C27_Witness ==
    /\ jobs.cleaned # <<>>
    /\ \E d \in DOMAIN jobs.cleaned :
          /\ d \in DOMAIN news /\ news[d].summary = TextOf(<<2, 3>>)
          /\ jobs.cleaned[d] = Sentence(50)

\* the loop stopped right after the sentence that brought the count to minWords:
\* of a sentence of 80 words followed by "Up 2.5%!" the first is returned alone
C27_WitnessReached ==
    /\ jobs.cleaned # <<>>
    /\ \E d \in DOMAIN jobs.cleaned :
          /\ d \in DOMAIN news /\ news[d].summary = TextOf(<<4, 6>>)
          /\ jobs.cleaned[d] = Sentence(80)

\* a first sentence of 111 words: nothing is returned
C27_WitnessTooLong ==
    /\ jobs.cleaned # <<>>
    /\ \E d \in DOMAIN jobs.cleaned :
          /\ d \in DOMAIN news /\ news[d].summary = TextOf(<<5>>)
          /\ jobs.cleaned[d] = <<>>

\* exactly maxWords words are returned whole
C27_WitnessFull ==
    /\ jobs.cleaned # <<>>
    /\ \E d \in DOMAIN jobs.cleaned :
          /\ d \in DOMAIN news /\ news[d].summary = TextOf(<<1, 4>>)
          /\ WordsIn(jobs.cleaned[d]) = MaxWords


(* ---- C28: cleanExistingSummaries and a second run of it ---- *)

\* C28: a run of cleanExistingSummaries after one that committed its updates, with no
\* other writer in between, updates no document: no second batch is committed.
C28_SecondRunUpdatesNothing ==
    [][commits' # commits => commits = 0]_vars

\* the other properties of C28: a commit of cleanExistingSummaries changes only the
\* field summary of the documents, removes and adds none, never sets an empty summary,
\* and changes exactly the documents whose cleaned summary was not empty and differed
\* from the stored one
C28_OnlyDifferingSummaries ==
    [][commits' # commits =>
          /\ DOMAIN news' = DOMAIN news
          /\ \A d \in DOMAIN news :
                /\ news'[d] = [news[d] EXCEPT !.summary = news'[d].summary]
                /\ news'[d].summary # <<>>
                /\ news'[d].summary # news[d].summary
                      <=> /\ jobs.cleaned[d] # <<>>
                          /\ jobs.cleaned[d] # news[d].summary
                /\ news'[d].summary # news[d].summary
                      => news'[d].summary = jobs.cleaned[d]]_vars

\* the second run committed an update: the summary with a line break inside its
\* bracket was cleaned twice
C28_WitnessSecondUpdate ==
    /\ commits = 2
    /\ \E d \in DOMAIN news : news[d].summary = <<"B","i","g"," ","w","i","n",".">>

\* a run that found every summary clean: it committed nothing
C28_WitnessNothingToDo ==
    /\ commits = 0 /\ jobs.pc = "idle" /\ jobs.cleaned # <<>>
    /\ \A d \in DOMAIN news : jobs.cleaned[d] = news[d].summary


(* ---- C29: every document older than seven days is deleted in the end ---- *)

\* document d is in the store with a timestamp more than 7 days before now
OlderThanSevenDays(d) ==
    d \in DOMAIN news /\ news[d].timestamp < now - SevenDays * Day

\* C29: in the scripts that schedule deleteOldNews daily, when cron keeps calling it
\* and the store answers its query and its commit, a document whose timestamp is more
\* than 7 days old is deleted in the end.
C29_OldDocumentsDeleted ==
    \A d \in Ids : OlderThanSevenDays(d) ~> d \notin DOMAIN news

\* the documents that get older than 7 days while the clock runs do not stay: from
\* some moment on every document left is at most 7 days old on the last day
C29_NoOldDocumentStays ==
    <>[](\A d \in DOMAIN news : ~(news[d].timestamp < (MaxDays - SevenDays) * Day))

\* a document became older than 7 days while no run of deleteOldNews was under way
C29_Witness ==
    /\ jobs.pc = "idle"
    /\ \E d \in Ids : OlderThanSevenDays(d)

\* a run that had sent its query before a document became older than 7 days
\* committed without it: that document waits for the next call
C29_WitnessNextCall ==
    /\ jobs.pc = "commit"
    /\ \E d \in Ids : OlderThanSevenDays(d) /\ d \notin jobs.batch

\* the old documents are gone and a younger one is left
C29_WitnessDeleted ==
    /\ now = MaxDays * Day /\ jobs.pc = "idle"
    /\ \E d \in Ids : d \notin DOMAIN news
    /\ \E d \in Ids : d \in DOMAIN news /\ ~OlderThanSevenDays(d)

====
